---- MODULE Spec2Model ----
(***************************************************************************)
(* A model of the query front end of Bursa NLQ: the API service            *)
(* (fetchAnnouncements / processQuery and their normalisers), the search   *)
(* page (MainAppPage), the autocomplete hook (useAutocomplete), the plan   *)
(* selector and store executor of the backend, the landing list            *)
(* (RecentAnnouncements) and App with its session and its sign-in,         *)
(* registration and confirmation forms.                                    *)
(*                                                                         *)
(* Strings are sequences of one-character strings, so that trim,           *)
(* toLowerCase, includes and startsWith are computed, not assumed.         *)
(* JavaScript values that cross the network are tagged records             *)
(* [t |-> type, v |-> value].  Confidence is counted in hundredths         *)
(* (100 stands for 1.0).                                                   *)
(***************************************************************************)
EXTENDS Integers, Sequences, FiniteSets, Bags, TLC

VARIABLES
    sampleData,       \* the static dataset imported from ../data/sampleData
    apiCall,          \* the last call made on the API service, with its inputs
    apiRequest,       \* the request that call sent ([sent |-> FALSE] if none)
    apiResult,        \* how the promise of that call settled
    repeatCall,       \* how the same call settled when it was made a second time
    filteredData,     \* MainAppPage state
    isLoading,
    error,
    diagnostics,
    isBackendResult,
    inflight,         \* handleSearch calls awaiting fetchAnnouncements
    lastSearch,       \* what the last completed handleSearch saw
    latestSearch,     \* the trimmed query of the most recent handleSearch call
    suggestions,      \* useAutocomplete state
    controllerRef,
    requests,         \* /smart-suggestions requests issued so far
    localCall,        \* the last direct call of buildLocalSuggestions
    planFilters,      \* the FilterConfig last handed to selectPlan
    plan,             \* the QueryPlan it returned
    landingItems,     \* RecentAnnouncements state: items
    landingIsLoading, \* RecentAnnouncements state: isLoading
    landingTimers,    \* pending setTimeout callbacks of loadMoreItems
    observer,         \* what the connected IntersectionObserver callback closed over
    appEnv,           \* the build-time configuration, once the page is open
    now,              \* Date.now()
    storage,          \* localStorage under AUTH_STORAGE_KEY
    currentPage,      \* App state
    selectedPlanId,
    pendingEmail,
    authSession,
    sid,              \* which session object authSession is (0: none)
    lastSid,          \* session objects created so far
    effectDeps,       \* the dependencies App's effects last ran with
    expiryTimers,     \* pending timers of the expiry effect
    firedTimer,       \* the last expiry timer that fired, and the session it found
    forms,            \* state of LoginPage, RegistrationPage and ConfirmPage
    idp               \* identity-provider requests awaiting their answer

vars == <<sampleData, apiCall, apiRequest, apiResult, repeatCall, filteredData, isLoading,
          error, diagnostics, isBackendResult, inflight, lastSearch, latestSearch,
          suggestions, controllerRef, requests, localCall, planFilters, plan,
          landingItems, landingIsLoading, landingTimers, observer,
          appEnv, now, storage, currentPage, selectedPlanId, pendingEmail, authSession,
          sid, lastSid, effectDeps, expiryTimers, firedTimer, forms, idp>>

apiVars == <<apiCall, apiRequest, apiResult, repeatCall>>
pageVars == <<filteredData, isLoading, error, diagnostics, isBackendResult,
              inflight, lastSearch, latestSearch>>
suggestVars == <<suggestions, controllerRef, requests, localCall>>
planVars == <<planFilters, plan>>
landingVars == <<landingItems, landingIsLoading, landingTimers, observer>>
appVars == <<appEnv, now, storage, currentPage, selectedPlanId, pendingEmail, authSession,
            sid, lastSid, effectDeps, expiryTimers, firedTimer, forms, idp>>
uiVars == <<landingVars, appVars>>

----------------------------------------------------------------------------
(* Bounds *)

MaxLen == 2             \* longest query handed to the API service
MaxPageLen == 1         \* longest query typed into the search page
MaxSample == 2          \* most records in the static dataset
MaxItemsOverride == 2   \* largest max_items a caller passes as an override
MaxStoreFailures == 3   \* most consecutive failures of the store
MaxInflight == 2        \* most searches in flight on the page
MaxLimit == 3           \* largest limit handed to buildLocalSuggestions
MaxTermLen == 1         \* longest word handed to the autocomplete hook
MaxRequests == 2        \* most suggestion requests issued

----------------------------------------------------------------------------
(* Strings *)

Chars == {"a", "B", " "}

RECURSIVE StringsUpTo(_)
StringsUpTo(n) ==
    IF n = 0 THEN {<<>>}
    ELSE LET shorter == StringsUpTo(n - 1)
         IN shorter \cup {Append(s, c) : s \in {x \in shorter : Len(x) = n - 1}, c \in Chars}

LowerChar(c) ==
    CASE c = "A" -> "a"
      [] c = "B" -> "b"
      [] OTHER -> c

toLowerCase(s) == [i \in 1..Len(s) |-> LowerChar(s[i])]

IsSpace(c) == c = " "

RECURSIVE trimStart(_)
trimStart(s) == IF s # <<>> /\ IsSpace(Head(s)) THEN trimStart(Tail(s)) ELSE s

RECURSIVE trimEnd(_)
trimEnd(s) ==
    IF s # <<>> /\ IsSpace(s[Len(s)]) THEN trimEnd(SubSeq(s, 1, Len(s) - 1)) ELSE s

trim(s) == trimEnd(trimStart(s))

startsWith(s, p) == Len(p) <= Len(s) /\ SubSeq(s, 1, Len(p)) = p

includes(s, p) ==
    \E i \in 0..(Len(s) - Len(p)) : SubSeq(s, i + 1, i + Len(p)) = p

Range(s) == {s[i] : i \in 1..Len(s)}

\* Array.from(new Set(s)): first occurrences, in insertion order
RECURSIVE Dedupe(_)
Dedupe(s) ==
    IF s = <<>> THEN <<>>
    ELSE LET init == Dedupe(SubSeq(s, 1, Len(s) - 1))
             last == s[Len(s)]
         IN IF last \in Range(init) THEN init ELSE Append(init, last)

\* Array.prototype.slice(0, n) for n >= 0
slice0(s, n) == SubSeq(s, 1, IF n < Len(s) THEN n ELSE Len(s))

NoRepeat(s) == \A i, j \in 1..Len(s) : s[i] = s[j] => i = j

\* string comparison, code unit by code unit (ISO dates compare as dates)
CharOrd(c) ==
    CASE c = "-" -> 0
      [] c = "0" -> 1 [] c = "1" -> 2 [] c = "2" -> 3 [] c = "3" -> 4
      [] c = "4" -> 5 [] c = "5" -> 6 [] c = "6" -> 7 [] c = "7" -> 8
      [] c = "8" -> 9 [] c = "9" -> 10
      [] OTHER -> 11

RECURSIVE StrLeq(_, _)
StrLeq(a, b) ==
    IF a = <<>> THEN TRUE
    ELSE IF b = <<>> THEN FALSE
    ELSE IF CharOrd(Head(a)) < CharOrd(Head(b)) THEN TRUE
    ELSE IF CharOrd(Head(a)) > CharOrd(Head(b)) THEN FALSE
    ELSE StrLeq(Tail(a), Tail(b))

----------------------------------------------------------------------------
(* JavaScript values *)

Undefined == [t |-> "undefined"]
JNull == [t |-> "null"]
JNum(n) == [t |-> "number", v |-> n]
JStr(s) == [t |-> "string", v |-> s]
JArr(a) == [t |-> "array", v |-> a]
JObj(r) == [t |-> "object", v |-> r]

JStrs(strings) == JArr([i \in 1..Len(strings) |-> JStr(strings[i])])

\* value.field, for a value that is neither null nor undefined
Prop(value, field) ==
    IF value.t = "object" /\ field \in DOMAIN value.v THEN value.v[field]
    ELSE Undefined

\* a ?? b
Coalesce(a, b) == IF a.t \in {"undefined", "null"} THEN b ELSE a

Digit(d) ==
    CASE d = 0 -> "0" [] d = 1 -> "1" [] d = 2 -> "2" [] d = 3 -> "3"
      [] d = 4 -> "4" [] d = 5 -> "5" [] d = 6 -> "6" [] d = 7 -> "7"
      [] d = 8 -> "8" [] d = 9 -> "9"

RECURSIVE NatToStr(_)
NatToStr(n) == IF n < 10 THEN <<Digit(n)>> ELSE Append(NatToStr(n \div 10), Digit(n % 10))

IntToStr(n) == IF n < 0 THEN <<"-">> \o NatToStr(0 - n) ELSE NatToStr(n)

RECURSIVE Join(_, _)
Join(parts, sep) ==
    IF parts = <<>> THEN <<>>
    ELSE IF Len(parts) = 1 THEN parts[1]
    ELSE parts[1] \o sep \o Join(Tail(parts), sep)

\* String(value)
RECURSIVE ToStr(_)
ToStr(value) ==
    CASE value.t = "string" -> value.v
      [] value.t = "number" -> IntToStr(value.v)
      [] value.t = "null" -> <<"n", "u", "l", "l">>
      [] value.t = "undefined" -> <<"u", "n", "d", "e", "f", "i", "n", "e", "d">>
      [] value.t = "object" ->
            <<"[", "o", "b", "j", "e", "c", "t", " ", "O", "b", "j", "e", "c", "t", "]">>
      [] value.t = "array" ->
            Join([i \in 1..Len(value.v) |->
                    IF value.v[i].t \in {"null", "undefined"} THEN <<>>
                    ELSE ToStr(value.v[i])], <<",">>)

isNonEmptyString(value) == value.t = "string" /\ Len(trim(value.v)) > 0

isPlainRecord(value) == value.t = "object"

----------------------------------------------------------------------------
(* The static dataset (data/sampleData): the dataset in use is any non-empty
   selection of at most MaxSample records of SampleUniverse, in order. *)

Date1 == <<"2", "0", "2", "5", "-", "0", "1", "-", "1", "5">>
Date2 == <<"2", "0", "2", "5", "-", "0", "2", "-", "1", "0">>
Date3 == <<"2", "0", "2", "5", "-", "0", "3", "-", "0", "1">>
Hash == <<"#">>

DataItem(id, companyName, announcementType, announcementDate, summary) ==
    [id |-> id, companyName |-> companyName, announcementType |-> announcementType,
     announcementDate |-> announcementDate, summary |-> summary,
     docLink |-> Hash, webLink |-> Hash, companyInfoLink |-> Hash,
     stockGraphLink |-> Hash, proSummaryLink |-> Hash]

SampleUniverse ==
    << DataItem(1, <<"A", "b">>, <<"b", " ", "a">>, Date3, <<"a", "a">>),
       DataItem(2, <<"B", "a">>, <<"b", " ", "a">>, Date1, <<"b">>),
       DataItem(3, <<"a", "B", "a">>, <<"A">>, Date2, <<>>) >>

RECURSIVE PickInOrder(_, _)
PickInOrder(universe, indices) ==
    IF indices = {} THEN <<>>
    ELSE LET first == CHOOSE i \in indices : \A j \in indices : i <= j
         IN <<universe[first]>> \o PickInOrder(universe, indices \ {first})

SampleDataSets ==
    {PickInOrder(SampleUniverse, ix) :
        ix \in {s \in SUBSET (1..Len(SampleUniverse)) :
                    s # {} /\ Cardinality(s) <= MaxSample}}

----------------------------------------------------------------------------
(* services/apiService: the local fallback *)

DefaultMaxItems == 50

FallbackNote == <<"L", "o", "c", "a", "l", " ", "f", "a", "l", "l", "b", "a", "c", "k", " ", "d", "a", "t", "a", " ", "u", "s", "e", "d", " ", "(", "A", "P", "I", " ", "u", "n", "a", "v", "a", "i", "l", "a", "b", "l", "e", ")", ".">>

ItemMatches(item, needle) ==
    \E hay \in {item.companyName, item.announcementType, item.summary} :
        isNonEmptyString(JStr(hay)) /\ includes(toLowerCase(hay), needle)

filterSampleData(query) ==
    LET trimmed == trim(query)
        needle == toLowerCase(trimmed)
        IsMatch(item) == ItemMatches(item, needle)
        matches == SelectSeq(sampleData, IsMatch)
    IN IF trimmed = <<>> THEN sampleData
       ELSE IF Len(matches) > 0 THEN matches ELSE sampleData

\* { ...a, ...b }
Spread(a, b) ==
    [k \in DOMAIN a \cup DOMAIN b |-> IF k \in DOMAIN b THEN b[k] ELSE a[k]]

\* the FilterConfig {}
EmptyFilters == JObj(<<>>)

\* buildFallbackFilters without its empty-query return
buildFallbackFilters_NoEmptyCheck(query, items) ==
    LET needle == toLowerCase(trim(query))
        Hit(s) == isNonEmptyString(JStr(s)) /\ includes(toLowerCase(s), needle)
        companyNames ==
            Dedupe(SelectSeq([i \in 1..Len(items) |-> items[i].companyName], Hit))
        announcementTypes ==
            Dedupe(SelectSeq([i \in 1..Len(items) |-> items[i].announcementType], Hit))
    IN JObj(Spread(
            IF Len(companyNames) > 0
            THEN [companyNames |-> JStrs(companyNames)] ELSE <<>>,
            IF Len(announcementTypes) > 0
            THEN [announcementTypes |-> JStrs(announcementTypes)] ELSE <<>>))

\* buildFallbackFilters answering only the first call of a session
buildFallbackFilters_FirstCallOnly(query, items) ==
    LET trimmed == trim(query)
        needle == toLowerCase(trimmed)
        Hit(s) == isNonEmptyString(JStr(s)) /\ includes(toLowerCase(s), needle)
        companyNames ==
            Dedupe(SelectSeq([i \in 1..Len(items) |-> items[i].companyName], Hit))
    IN IF trimmed = <<>> \/ apiCall.fn # "none" THEN EmptyFilters
       ELSE JObj(IF Len(companyNames) > 0
                 THEN [companyNames |-> JStrs(companyNames)] ELSE <<>>)

buildFallbackFilters(query, items) ==
    LET trimmed == trim(query)
        needle == toLowerCase(trimmed)
        Hit(s) == isNonEmptyString(JStr(s)) /\ includes(toLowerCase(s), needle)
        companyNames ==
            Dedupe(SelectSeq([i \in 1..Len(items) |-> items[i].companyName], Hit))
        announcementTypes ==
            Dedupe(SelectSeq([i \in 1..Len(items) |-> items[i].announcementType], Hit))
    IN IF trimmed = <<>> THEN EmptyFilters
       ELSE JObj(Spread(
               IF Len(companyNames) > 0
               THEN [companyNames |-> JStrs(companyNames)] ELSE <<>>,
               IF Len(announcementTypes) > 0
               THEN [announcementTypes |-> JStrs(announcementTypes)] ELSE <<>>))

FallbackDiagnostics ==
    JObj([confidence |-> JNum(0), notes |-> JArr(<<JStr(FallbackNote)>>),
          error |-> JNull,
          matchedCompanyAliases |-> Undefined, matchedReportAliases |-> Undefined,
          heuristicsText |-> JNull, finalText |-> JNull])

createFallbackResponse(query) ==
    LET items == filterSampleData(query)
    IN [items |-> JArr(items), fetched |-> JNum(Len(items)),
        filters |-> buildFallbackFilters(query, items),
        diagnostics |-> FallbackDiagnostics,
        renderedPartiql |-> JNull, rawItems |-> JArr(items)]

----------------------------------------------------------------------------
(* services/apiService: normalising what the backend sent *)

normalizeFilterConfig(raw) ==
    LET source == IF isPlainRecord(raw) THEN raw ELSE JObj(<<>>)
        companyNames == Prop(source, "companyNames")
        announcementTypes == Prop(source, "announcementTypes")
        startDate == Prop(source, "startDate")
        endDate == Prop(source, "endDate")
        names == IF companyNames.t = "array"
                 THEN SelectSeq(companyNames.v, isNonEmptyString) ELSE <<>>
        types == IF announcementTypes.t = "array"
                 THEN SelectSeq(announcementTypes.v, isNonEmptyString) ELSE <<>>
    IN JObj(Spread(Spread(Spread(
            IF Len(names) > 0 THEN [companyNames |-> JArr(names)] ELSE <<>>,
            IF Len(types) > 0 THEN [announcementTypes |-> JArr(types)] ELSE <<>>),
            IF isNonEmptyString(startDate) THEN [startDate |-> startDate] ELSE <<>>),
            IF isNonEmptyString(endDate) THEN [endDate |-> endDate] ELSE <<>>))

mapIfRecord(value) ==
    IF isPlainRecord(value)
    THEN JObj([key \in DOMAIN value.v |-> JStr(ToStr(value.v[key]))])
    ELSE Undefined

StringOrNull(value) == IF isNonEmptyString(value) THEN value ELSE JNull

\* normalizeDiagnostics without the typeof check on confidence
normalizeDiagnostics_RawConfidence(raw) ==
    LET source == IF isPlainRecord(raw) THEN raw ELSE JObj(<<>>)
        rawNotes == Prop(source, "notes")
        notes == IF rawNotes.t = "array"
                 THEN [i \in 1..Len(rawNotes.v) |-> JStr(ToStr(rawNotes.v[i]))]
                 ELSE <<>>
    IN JObj([confidence |-> Prop(source, "confidence"),
             notes |-> JArr(notes),
             error |-> StringOrNull(Prop(source, "error")),
             matchedCompanyAliases |-> mapIfRecord(Prop(source, "matchedCompanyAliases")),
             matchedReportAliases |-> mapIfRecord(Prop(source, "matchedReportAliases")),
             heuristicsText |-> StringOrNull(Prop(source, "heuristicsText")),
             finalText |-> StringOrNull(Prop(source, "finalText"))])

normalizeDiagnostics(raw) ==
    LET source == IF isPlainRecord(raw) THEN raw ELSE JObj(<<>>)
        rawNotes == Prop(source, "notes")
        notes == IF rawNotes.t = "array"
                 THEN [i \in 1..Len(rawNotes.v) |-> JStr(ToStr(rawNotes.v[i]))]
                 ELSE <<>>
        confidence == Prop(source, "confidence")
    IN JObj([confidence |-> IF confidence.t = "number" THEN confidence ELSE JNum(0),
             notes |-> JArr(notes),
             error |-> StringOrNull(Prop(source, "error")),
             matchedCompanyAliases |-> mapIfRecord(Prop(source, "matchedCompanyAliases")),
             matchedReportAliases |-> mapIfRecord(Prop(source, "matchedReportAliases")),
             heuristicsText |-> StringOrNull(Prop(source, "heuristicsText")),
             finalText |-> StringOrNull(Prop(source, "finalText"))])

toStringOrEmpty(value) ==
    IF isNonEmptyString(value) THEN value.v
    ELSE IF value.t \in {"null", "undefined"} THEN <<>>
    ELSE ToStr(value)

\* a || b on strings: the empty string is falsy
OrElse(a, b) == IF a = <<>> THEN b ELSE a

IsDigit(c) == c \in {"0", "1", "2", "3", "4", "5", "6", "7", "8", "9"}

DigitValue(c) == CharOrd(c) - 1

RECURSIVE LeadingDigits(_)
LeadingDigits(s) ==
    IF s # <<>> /\ IsDigit(Head(s)) THEN <<Head(s)>> \o LeadingDigits(Tail(s)) ELSE <<>>

RECURSIVE DigitsValue(_)
DigitsValue(ds) ==
    IF ds = <<>> THEN 0
    ELSE 10 * DigitsValue(SubSeq(ds, 1, Len(ds) - 1)) + DigitValue(ds[Len(ds)])

\* Number.parseInt(s, 10) || fallback: NaN and 0 are falsy
parseIntOr(s, fallback) ==
    LET body == trimStart(s)
        negative == body # <<>> /\ Head(body) = "-"
        unsigned == IF body # <<>> /\ Head(body) \in {"-", "+"} THEN Tail(body) ELSE body
        ds == LeadingDigits(unsigned)
        n == IF negative THEN 0 - DigitsValue(ds) ELSE DigitsValue(ds)
    IN IF ds = <<>> \/ n = 0 THEN fallback ELSE n

normalizeEntry(entry, position) ==
    LET idValue == Prop(entry, "id")
        id == IF idValue.t = "number" THEN idValue.v
              ELSE parseIntOr(ToStr(Coalesce(idValue, JNum(position))), position)
        docLink == OrElse(toStringOrEmpty(
                       Coalesce(Prop(entry, "docLink"), Prop(entry, "url"))), Hash)
    IN [id |-> id,
        companyName |-> toStringOrEmpty(
            Coalesce(Prop(entry, "companyName"),
            Coalesce(Prop(entry, "issuerName"),
            Coalesce(Prop(entry, "company_name_he"), Prop(entry, "company_name_en"))))),
        announcementType |-> toStringOrEmpty(
            Coalesce(Prop(entry, "announcementType"), Prop(entry, "form_type"))),
        announcementDate |-> toStringOrEmpty(
            Coalesce(Prop(entry, "announcementDate"), Prop(entry, "publicationDate"))),
        summary |-> toStringOrEmpty(
            Coalesce(Prop(entry, "summary"),
            Coalesce(Prop(entry, "title"), Prop(entry, "subject")))),
        docLink |-> docLink,
        webLink |-> docLink,
        companyInfoLink |-> OrElse(toStringOrEmpty(
            Coalesce(Prop(entry, "companyInfoLink"), JStr(Hash))), Hash),
        stockGraphLink |-> OrElse(toStringOrEmpty(
            Coalesce(Prop(entry, "stockGraphLink"), JStr(Hash))), Hash),
        proSummaryLink |-> OrElse(OrElse(toStringOrEmpty(
            Coalesce(Prop(entry, "proSummaryLink"),
            Coalesce(Prop(entry, "pro_url"), Prop(entry, "proUrl")))), docLink), Hash)]

RECURSIVE normalizeFrom(_, _)
normalizeFrom(raw, position) ==
    IF position > Len(raw) THEN <<>>
    ELSE IF isPlainRecord(raw[position])
         THEN <<normalizeEntry(raw[position], position)>> \o normalizeFrom(raw, position + 1)
         ELSE normalizeFrom(raw, position + 1)

normalizeDataItems(raw) ==
    IF raw.t = "array" THEN JArr(normalizeFrom(raw.v, 1)) ELSE JArr(<<>>)

----------------------------------------------------------------------------
(* How a call completes: it returns a value or it throws *)

Return(value) == [kind |-> "return", value |-> value]
Throw(message) == [kind |-> "throw", error |-> message]

\* how a promise settles; fellBack records that the catch branch produced the value
Fulfilled(value, fellBack) ==
    [status |-> "fulfilled", value |-> value, fellBack |-> fellBack]
Rejected(message) == [status |-> "rejected", error |-> message]

----------------------------------------------------------------------------
(* The backend's store executor and what the network delivers.

   A network outcome is one of
     [kind |-> "unreachable"]                        fetch rejects
     [kind |-> "http", ok, status, body]             a response not produced by
                                                     a store query
     [kind |-> "backend", storeFailures, body]       the backend ran the query:
         its first storeFailures store calls fail, body is what it answers
         when the store call succeeds.
   A body is [kind |-> "empty"], [kind |-> "text"] (not JSON),
   [kind |-> "abort"] (reading it fails) or [kind |-> "json", value |-> v]. *)

StoreMaxAttempts == 3

StoreUnavailable == <<"S", "t", "o", "r", "e", "U", "n", "a", "v", "a", "i", "l", "a", "b", "l", "e">>
FailedToFetch == <<"F", "a", "i", "l", "e", "d", " ", "t", "o", " ", "f", "e", "t", "c", "h">>
Status503 == <<"5", "0", "3">>
Status200 == <<"2", "0", "0">>
Status500 == <<"5", "0", "0">>
TypeErrorMessage == <<"T", "y", "p", "e", "E", "r", "r", "o", "r">>

EmptyBody == [kind |-> "empty"]
TextBody == [kind |-> "text"]
AbortBody == [kind |-> "abort"]
JsonBody(value) == [kind |-> "json", value |-> value]

\* the store call of attempt i fails iff i <= failures
RECURSIVE executeFrom(_, _)
executeFrom(attempt, failures) ==
    IF attempt > failures THEN [ok |-> TRUE, attempts |-> attempt]
    ELSE IF attempt >= StoreMaxAttempts THEN [ok |-> FALSE, attempts |-> attempt]
    ELSE executeFrom(attempt + 1, failures)

execute(failures) == executeFrom(1, failures)

NoStoreRun == [ok |-> TRUE, attempts |-> 0]

StoreRun(net) == IF net.kind = "backend" THEN execute(net.storeFailures) ELSE NoStoreRun

\* the Response fetch resolves to, for an outcome other than "unreachable"
Respond(net) ==
    IF net.kind = "http" THEN [ok |-> net.ok, status |-> net.status, body |-> net.body]
    ELSE IF execute(net.storeFailures).ok
         THEN [ok |-> TRUE, status |-> Status200, body |-> net.body]
         ELSE [ok |-> FALSE, status |-> Status503,
               body |-> JsonBody(JObj([detail |-> JStr(StoreUnavailable)]))]

----------------------------------------------------------------------------
(* services/apiService: the requests *)

readJson(response) ==
    CASE response.body.kind = "abort" -> Throw(FailedToFetch)
      [] response.body.kind = "empty" -> Return(JObj(<<>>))
      [] response.body.kind = "text" -> Return(JObj(<<>>))
      [] response.body.kind = "json" -> Return(response.body.value)

extractErrorMessage(response) ==
    LET payload == readJson(response)
    IN IF payload.kind = "throw" THEN payload
       ELSE IF payload.value.t \in {"null", "undefined"} THEN Throw(TypeErrorMessage)
       ELSE IF isNonEmptyString(Prop(payload.value, "detail"))
            THEN Return(ToStr(Prop(payload.value, "detail")))
       ELSE IF isNonEmptyString(Prop(payload.value, "message"))
            THEN Return(ToStr(Prop(payload.value, "message")))
       ELSE Return(trim(response.status))

DEFAULT_QUERY_CONFIG ==
    [table_name |-> "CompanyDisclosuresHebrew", pk_attr |-> "issuerName",
     sk_attr |-> "publicationDate", date_format |-> "iso_date",
     report_type_attr |-> "events", report_type_is_list |-> FALSE,
     report_type_match |-> "map_keys", scan_descending |-> TRUE,
     gsi_name_by_report_type |-> "form_type-publicationDate-index",
     gsi_pk_attr |-> "form_type", gsi_sk_attr |-> "publicationDate",
     gsi_name_by_date |-> "Sort-By-Dates-Index", gsi_date_pk_attr |-> "dummy",
     gsi_date_pk_value |-> "1"]

DEFAULT_RUN_OPTIONS ==
    [mode |-> "api", aws_region |-> "us-east-1", aws_profile |-> "",
     endpoint_url |-> "", max_items |-> DefaultMaxItems]

buildAnnouncementsPayload(query, overrides) ==
    Spread(Spread(Spread(DEFAULT_QUERY_CONFIG, DEFAULT_RUN_OPTIONS),
                  [auto_expand_aliases |-> TRUE, force_absolute_timeframe |-> TRUE,
                   query |-> query]),
           overrides)

NoRequest == [sent |-> FALSE]
Request(path, body) == [sent |-> TRUE, path |-> path, body |-> body]

\* the try block of processQuery, after the empty-query check
processQueryTry(net) ==
    IF net.kind = "unreachable" THEN Throw(FailedToFetch)
    ELSE LET response == Respond(net)
             data == readJson(response)
         IN IF ~response.ok THEN Return(JNull)
            ELSE IF data.kind = "throw" THEN data
            ELSE IF data.value.t \in {"null", "undefined"} THEN Throw(TypeErrorMessage)
            ELSE Return(normalizeFilterConfig(Prop(data.value, "filters")))

processQuery(query, net) ==
    LET attempt == processQueryTry(net)
    IN IF trim(query) = <<>> THEN Fulfilled(JNull, FALSE)
       ELSE IF attempt.kind = "throw" THEN Fulfilled(JNull, TRUE)
       ELSE Fulfilled(attempt.value, FALSE)

\* the try block of fetchAnnouncements without the response.ok check
fetchAnnouncementsTry_IgnoreStatus(query, overrides, net) ==
    IF net.kind = "unreachable" THEN Throw(FailedToFetch)
    ELSE LET read == readJson(Respond(net))
             data == read.value
             items == normalizeDataItems(Prop(data, "items"))
             fetched == Prop(data, "fetched")
         IN IF read.kind = "throw" THEN read
            ELSE IF data.t \in {"null", "undefined"} THEN Throw(TypeErrorMessage)
            ELSE Return([items |-> items,
                         fetched |-> IF fetched.t = "number" THEN fetched
                                     ELSE JNum(Len(items.v)),
                         filters |-> normalizeFilterConfig(Prop(data, "filters")),
                         diagnostics |-> normalizeDiagnostics(Prop(data, "diagnostics")),
                         renderedPartiql |-> StringOrNull(Prop(data, "renderedPartiql")),
                         rawItems |-> Prop(data, "rawItems")])

\* the try block of fetchAnnouncements
fetchAnnouncementsTry(query, overrides, net) ==
    IF net.kind = "unreachable" THEN Throw(FailedToFetch)
    ELSE LET response == Respond(net)
             message == extractErrorMessage(response)
             read == readJson(response)
             data == read.value
             items == normalizeDataItems(Prop(data, "items"))
             fetched == Prop(data, "fetched")
             renderedPartiql == Prop(data, "renderedPartiql")
         IN IF ~response.ok
            THEN (IF message.kind = "throw" THEN message ELSE Throw(message.value))
            ELSE IF read.kind = "throw" THEN read
            ELSE IF data.t \in {"null", "undefined"} THEN Throw(TypeErrorMessage)
            ELSE Return([items |-> items,
                         fetched |-> IF fetched.t = "number" THEN fetched
                                     ELSE JNum(Len(items.v)),
                         filters |-> normalizeFilterConfig(Prop(data, "filters")),
                         diagnostics |-> normalizeDiagnostics(Prop(data, "diagnostics")),
                         renderedPartiql |-> StringOrNull(renderedPartiql),
                         rawItems |-> Prop(data, "rawItems")])

\* fetchAnnouncements with a catch that rethrows
fetchAnnouncements_Rethrow(query, overrides, net) ==
    LET attempt == fetchAnnouncementsTry(query, overrides, net)
    IN IF attempt.kind = "throw"
       THEN Rejected(attempt.error)
       ELSE Fulfilled(attempt.value, FALSE)

fetchAnnouncements(query, overrides, net) ==
    LET attempt == fetchAnnouncementsTry(query, overrides, net)
    IN IF attempt.kind = "throw"
       THEN Fulfilled(createFallbackResponse(query), TRUE)
       ELSE Fulfilled(attempt.value, FALSE)

----------------------------------------------------------------------------
(* What the user types and what the backend may answer *)

Queries == StringsUpTo(MaxLen)

OverridesSet ==
    {<<>>} \cup {[max_items |-> n] : n \in (0 - 1)..MaxItemsOverride}
           \cup {[scan_descending |-> FALSE]}

PayloadItemA ==
    JObj([id |-> JNum(7), companyName |-> JStr(<<"A", "b">>),
          announcementType |-> JStr(<<"b", " ", "a">>),
          announcementDate |-> JStr(Date2), summary |-> JStr(<<"a">>),
          docLink |-> JStr(<<"d">>)])

PayloadItemB ==
    JObj([id |-> JStr(<<"1", "2", "x">>), issuerName |-> JStr(<<"B", "a">>),
          form_type |-> JNum(4), publicationDate |-> JStr(Date3),
          title |-> JNull, url |-> JStr(<<" ">>)])

ItemsChoices ==
    {Undefined, JStr(<<"a">>), JArr(<<>>), JArr(<<PayloadItemA>>),
     JArr(<<PayloadItemB, JNull, PayloadItemA>>),
     JArr(<<PayloadItemA, PayloadItemB>>)}

FiltersChoices ==
    {Undefined, JNull, JArr(<<>>), JObj(<<>>),
     JObj([companyNames |-> JArr(<<JStr(<<"A", "b">>), JStr(<<" ">>), JNum(3)>>),
           announcementTypes |-> JStr(<<"A">>),
           startDate |-> JStr(Date1), endDate |-> JStr(Date3)]),
     JObj([announcementTypes |-> JArr(<<JStr(<<"A">>)>>),
           startDate |-> JStr(Date3), endDate |-> JStr(Date1)]),
     JObj([companyNames |-> JArr(<<>>), startDate |-> JNum(5), endDate |-> JStr(<<" ">>)]),
     JObj([startDate |-> JStr(<<"a">>), endDate |-> JStr(Date1)])}

DiagnosticsChoices ==
    {Undefined, JStr(<<"a">>),
     JObj([confidence |-> JNum(70),
           notes |-> JArr(<<JStr(<<"n">>), JNum(4), JNull>>), error |-> JNull]),
     JObj([confidence |-> JNum(150), notes |-> JStr(<<"n">>)]),
     JObj([confidence |-> JNum(0 - 20), notes |-> JArr(<<>>),
           matchedCompanyAliases |-> JObj([a |-> JStr(<<"A", "b">>), b |-> JNum(1)])]),
     JObj([confidence |-> JStr(<<"1">>), error |-> JStr(<<"e">>),
           notes |-> JArr(<<JStr(<<"1">>), JStr(<<"2">>), JStr(<<"3">>), JStr(<<"4">>)>>)])}

Data(items, filters, diags) ==
    JObj([items |-> items, filters |-> filters, diagnostics |-> diags])

\* every field varied on its own, and every pairing of items with filters
JsonValues ==
    {JNull, JNum(1), JStr(<<"a">>), JArr(<<>>), JObj(<<>>),
     JObj([items |-> JArr(<<PayloadItemA>>), fetched |-> JNum(9),
           renderedPartiql |-> JStr(<<"q">>), rawItems |-> JArr(<<JNull>>)])}
    \cup {Data(i, f, Undefined) : i \in ItemsChoices, f \in FiltersChoices}
    \cup {Data(i, Undefined, d) : i \in ItemsChoices, d \in DiagnosticsChoices}

Bodies == {EmptyBody, TextBody, AbortBody} \cup {JsonBody(v) : v \in JsonValues}

\* what the backend answers when the store call succeeded on a retry
RetryBodies ==
    {EmptyBody, JsonBody(JNull),
     JsonBody(Data(JArr(<<>>), Undefined, Undefined)),
     JsonBody(Data(JArr(<<PayloadItemA>>), JObj(<<>>),
                   JObj([confidence |-> JNum(70), notes |-> JArr(<<>>)])))}

ErrorBodies ==
    {EmptyBody, TextBody, AbortBody, JsonBody(JNull),
     JsonBody(JObj([detail |-> JStr(<<"d">>)])),
     JsonBody(JObj([message |-> JStr(<<"m">>)]))}

Unreachable == [kind |-> "unreachable"]
Http(ok, status, body) == [kind |-> "http", ok |-> ok, status |-> status, body |-> body]
Backend(storeFailures, body) ==
    [kind |-> "backend", storeFailures |-> storeFailures, body |-> body]

\* outcomes of POST /announcements: the backend answers OK only after a store query
AnnouncementNets ==
    {Unreachable}
    \cup {Http(FALSE, Status500, b) : b \in ErrorBodies}
    \cup {Backend(0, b) : b \in Bodies}
    \cup {Backend(k, b) : k \in 1..MaxStoreFailures, b \in RetryBodies}

\* outcomes of POST /filters: pure resolution, no store access
FilterNets ==
    {Unreachable}
    \cup {Http(FALSE, Status500, b) : b \in ErrorBodies}
    \cup {Http(TRUE, Status200, b) :
            b \in {EmptyBody, TextBody, AbortBody, JsonBody(JNull), JsonBody(JNum(1))}
                  \cup {JsonBody(JObj([filters |-> f])) : f \in FiltersChoices}}

----------------------------------------------------------------------------
(* Initial state: the modules are loaded, nothing has been called, the page
   has just been constructed (useState initial values). *)

NoCall == [fn |-> "none"]
NoResult == [status |-> "none"]
NoPlan == [tag |-> "none"]
NoObserver == [connected |-> FALSE]
NoEnv == [loaded |-> FALSE]
NoEntry == [t |-> "no entry"]       \* getItem returns null
NoDeps == [sid |-> 0 - 1, page |-> "none"]
FormNames == {"login", "registration", "confirm"}
InitialForm == [submitting |-> FALSE, resending |-> FALSE, error |-> FALSE,
                message |-> FALSE]
InitialForms == [f \in FormNames |-> InitialForm]

Init ==
    /\ sampleData \in SampleDataSets
    /\ apiCall = NoCall
    /\ apiRequest = NoRequest
    /\ apiResult = NoResult
    /\ repeatCall = NoResult
    /\ filteredData = sampleData
    /\ isLoading = FALSE
    /\ error = JNull
    /\ diagnostics = JNull
    /\ isBackendResult = FALSE
    /\ inflight = EmptyBag
    /\ lastSearch = NoCall
    /\ latestSearch = NoCall
    /\ suggestions = <<>>
    /\ controllerRef = JNull
    /\ requests = <<>>
    /\ localCall = NoCall
    /\ planFilters = EmptyFilters
    /\ plan = NoPlan
    /\ landingItems = <<>>
    /\ landingIsLoading = FALSE
    /\ landingTimers = 0
    /\ observer = NoObserver
    /\ appEnv = NoEnv
    /\ now = 0
    /\ storage = NoEntry
    /\ currentPage = "landing"
    /\ selectedPlanId = JNull
    /\ pendingEmail = JNull
    /\ authSession = JNull
    /\ sid = 0
    /\ lastSid = 0
    /\ effectDeps = NoDeps
    /\ expiryTimers = {}
    /\ firedTimer = [fired |-> FALSE, sid |-> 0, current |-> 0]
    /\ forms = InitialForms
    /\ idp = <<>>

----------------------------------------------------------------------------
(* Calls on the API service.  The service keeps no state between calls, so a
   behaviour is one call: its inputs are drawn when the call is made. *)

CallFetchAnnouncements ==
    /\ apiCall = NoCall
    /\ \E query \in Queries, overrides \in OverridesSet, net \in AnnouncementNets :
        /\ apiCall' = [fn |-> "fetchAnnouncements", query |-> query,
                       overrides |-> overrides, net |-> net, store |-> StoreRun(net)]
        /\ apiRequest' = Request("/announcements",
                                 buildAnnouncementsPayload(query, overrides))
        /\ apiResult' = fetchAnnouncements(query, overrides, net)
        /\ UNCHANGED <<sampleData, repeatCall, pageVars, suggestVars, planVars, uiVars>>

CallProcessQuery ==
    /\ apiCall = NoCall
    /\ \E query \in Queries, net \in FilterNets :
        /\ apiCall' = [fn |-> "processQuery", query |-> query, overrides |-> <<>>,
                       net |-> net, store |-> NoStoreRun]
        /\ apiRequest' = IF trim(query) = <<>> THEN NoRequest
                         ELSE Request("/filters",
                                      [query |-> query, auto_expand_aliases |-> TRUE,
                                       force_absolute_timeframe |-> TRUE])
        /\ apiResult' = processQuery(query, net)
        /\ UNCHANGED <<sampleData, repeatCall, pageVars, suggestVars, planVars, uiVars>>

NextApi == CallFetchAnnouncements \/ CallProcessQuery

SpecApi == Init /\ [][NextApi]_vars

\* the same call made a second time: same query and overrides, the same
\* sample data, and the backend giving the same answer
RepeatCall ==
    /\ apiCall # NoCall
    /\ repeatCall = NoResult
    /\ repeatCall' = IF apiCall.fn = "fetchAnnouncements"
                     THEN fetchAnnouncements(apiCall.query, apiCall.overrides, apiCall.net)
                     ELSE processQuery(apiCall.query, apiCall.net)
    /\ UNCHANGED <<sampleData, apiCall, apiRequest, apiResult, pageVars, suggestVars,
                   planVars, uiVars>>

NextRepeat == NextApi \/ RepeatCall

SpecRepeat == Init /\ [][NextRepeat]_vars

----------------------------------------------------------------------------
(* Properties of the API service, checked under SpecApi *)

CalledFetch == apiCall.fn = "fetchAnnouncements"
CalledProcess == apiCall.fn = "processQuery"
Called == apiCall.fn # "none"

FilterKeys == {"companyNames", "announcementTypes", "startDate", "endDate"}

IsEmptyFilterConfig(f) ==
    f.t = "object" /\ \A k \in FilterKeys : Prop(f, k) = Undefined

IsStringArray(value) ==
    value.t = "array" /\ \A i \in 1..Len(value.v) : value.v[i].t = "string"

IsFilterConfig(f) ==
    /\ f.t = "object"
    /\ \A k \in {"companyNames", "announcementTypes"} :
          Prop(f, k) = Undefined \/ IsStringArray(Prop(f, k))
    /\ \A k \in {"startDate", "endDate"} : Prop(f, k).t \in {"undefined", "string"}

IsDiagnostics(d) ==
    /\ d.t = "object"
    /\ Prop(d, "confidence").t = "number"
    /\ IsStringArray(Prop(d, "notes"))

\* the result is the degraded-mode result: confidence 0, the note, local records
IsDegradedResult(r) ==
    /\ Prop(r.diagnostics, "confidence") = JNum(0)
    /\ JStr(FallbackNote) \in Range(Prop(r.diagnostics, "notes").v)
    /\ r.items.t = "array"
    /\ Range(r.items.v) \subseteq Range(sampleData)
    /\ r.fetched = JNum(Len(r.items.v))

\* C1: fetchAnnouncements never rejects; when fetch throws or the response is
\* not OK it resolves to a well-formed response built from the local dataset,
\* with confidence 0 and the note that identifies the local fallback.
C1_DegradedModeContract ==
    CalledFetch =>
        /\ apiResult.status = "fulfilled"
        /\ (apiCall.net.kind = "unreachable" \/ ~Respond(apiCall.net).ok)
              => IsDegradedResult(apiResult.value)

C1_Witness ==
    /\ CalledFetch
    /\ apiCall.net.kind = "http"
    /\ ~apiCall.net.ok
    /\ apiResult.status = "fulfilled"
    /\ apiResult.fellBack
    /\ Len(apiResult.value.items.v) > 0

\* C2: the items returned by fetchAnnouncements are at most max_items (the
\* value carried by the request, 50 by default) in number.
C2_PaginationBound ==
    (CalledFetch /\ apiResult.status = "fulfilled")
        => Len(apiResult.value.items.v) <= apiRequest.body.max_items

ReturnedFilters ==
    IF CalledProcess THEN apiResult.value ELSE apiResult.value.filters

\* C4: every FilterConfig returned by processQuery or fetchAnnouncements that
\* has both startDate and endDate satisfies startDate <= endDate.
C4_DateRangeInvariant ==
    (Called /\ apiResult.status = "fulfilled")
        => ((/\ ReturnedFilters.t = "object"
             /\ Prop(ReturnedFilters, "startDate").t = "string"
             /\ Prop(ReturnedFilters, "endDate").t = "string")
            => StrLeq(Prop(ReturnedFilters, "startDate").v,
                      Prop(ReturnedFilters, "endDate").v))

\* C5: the confidence of every result of fetchAnnouncements lies in [0,1]
\* (0..100 hundredths).
C5_ConfidenceInUnitInterval ==
    (CalledFetch /\ apiResult.status = "fulfilled")
        => /\ Prop(apiResult.value.diagnostics, "confidence").t = "number"
           /\ Prop(apiResult.value.diagnostics, "confidence").v >= 0
           /\ Prop(apiResult.value.diagnostics, "confidence").v <= 100

\* C6: whatever the shape of the backend's payload, fetchAnnouncements returns
\* a FilterConfig object, a Diagnostics object with a numeric confidence and an
\* array of string notes, and an items array.
C6_AlwaysFilterConfigAndDiagnostics ==
    CalledFetch =>
        /\ apiResult.status = "fulfilled"
        /\ IsFilterConfig(apiResult.value.filters)
        /\ IsDiagnostics(apiResult.value.diagnostics)
        /\ apiResult.value.items.t = "array"

C6_Witness ==
    /\ CalledFetch
    /\ apiCall.net.kind = "backend"
    /\ apiCall.net.body.kind = "json"
    /\ Prop(Prop(apiCall.net.body.value, "diagnostics"), "confidence").t = "string"
    /\ apiResult.status = "fulfilled"
    /\ ~apiResult.fellBack
    /\ Prop(apiResult.value.diagnostics, "confidence") = JNum(0)

\* the backend's answer can be read and is not null
ReadableAnswer(body) ==
    body.kind \in {"empty", "text"} \/ (body.kind = "json" /\ body.value.t # "null")

IsIsoDate(s) ==
    /\ Len(s) = 10
    /\ \A i \in {1, 2, 3, 4, 6, 7, 9, 10} : IsDigit(s[i])
    /\ s[5] = "-" /\ s[8] = "-"

\* C14: when the request asked for force_absolute_timeframe, every startDate
\* and endDate of the FilterConfig processQuery or fetchAnnouncements returns
\* is an absolute date (YYYY-MM-DD), never an unresolved expression.
C14_DatesAreAbsolute ==
    (/\ Called
     /\ apiResult.status = "fulfilled"
     /\ apiRequest.sent
     /\ apiRequest.body.force_absolute_timeframe
     /\ ReturnedFilters.t = "object")
        => \A key \in {"startDate", "endDate"} :
              Prop(ReturnedFilters, key).t = "string"
                  => IsIsoDate(Prop(ReturnedFilters, key).v)

\* C15: unless the caller overrides scan_descending, the items fetchAnnouncements
\* returns (from the backend or from the local fallback) are ordered by
\* announcementDate, most recent first.
C15_ItemsSortedDescending ==
    (/\ CalledFetch
     /\ apiResult.status = "fulfilled"
     /\ apiRequest.body.scan_descending)
        => LET items == apiResult.value.items.v
           IN \A i, j \in 1..Len(items) :
                 i < j => StrLeq(items[j].announcementDate, items[i].announcementDate)

----------------------------------------------------------------------------
(* Ownership of what a fallback response returns.  An object is named by the
   position of the sample record it was made from and by whether it is that
   very record (shared) or a new object. *)

\* the sample record itself, handed out without a copy
spreadCopy_SameObject(index) == [index |-> index, shared |-> TRUE]

\* ({ ...item }): a new object with the fields of the record at index
spreadCopy(index) == [index |-> index, shared |-> FALSE]

\* the objects filterSampleData(query) returns, in order
fallbackOrigins(query) ==
    LET trimmed == trim(query)
        needle == toLowerCase(trimmed)
        positions == [k \in 1..Len(sampleData) |-> k]
        IsMatch(k) == ItemMatches(sampleData[k], needle)
        matches == SelectSeq(positions, IsMatch)
        source == IF trimmed = <<>> THEN positions
                  ELSE IF Len(matches) > 0 THEN matches ELSE positions
    IN [i \in 1..Len(source) |-> spreadCopy(source[i])]

\* what the caller writes into an object it was given
Marker == <<"x">>

Touch(items, i) == [items EXCEPT ![i].summary = Marker]

\* the caller of fetchAnnouncements mutates what a fallback response gave it:
\* one item, and the notes of the diagnostics
MutateReturned ==
    /\ apiCall.fn = "fetchAnnouncements"
    /\ apiResult.status = "fulfilled"
    /\ apiResult.fellBack
    /\ \A i \in 1..Len(apiResult.value.items.v) :
          apiResult.value.items.v[i].summary # Marker
    /\ \E i \in 1..Len(apiResult.value.items.v) :
         \E origin \in {fallbackOrigins(apiCall.query)[i]} :
           /\ apiResult' =
                 [apiResult EXCEPT !.value.items.v = Touch(@, i),
                                   !.value.rawItems.v = Touch(@, i),
                                   !.value.diagnostics.v.notes.v = Append(@, JStr(Marker))]
           /\ sampleData' = IF origin.shared THEN Touch(sampleData, origin.index)
                            ELSE sampleData
           /\ repeatCall' =
                 IF origin.shared /\ repeatCall # NoResult
                 THEN [repeatCall EXCEPT !.value.items.v = Touch(@, i),
                                         !.value.rawItems.v = Touch(@, i)]
                 ELSE repeatCall
    /\ UNCHANGED <<apiCall, apiRequest, pageVars, suggestVars, planVars, uiVars>>

NextOwn == CallFetchAnnouncements \/ RepeatCall \/ MutateReturned

SpecOwn == Init /\ [][NextOwn]_vars

----------------------------------------------------------------------------
(* pages/MainAppPage *)

NoResultsText == <<"n", "o", "R", "e", "s", "u", "l", "t", "s">>
FilterErrorText == <<"f", "i", "l", "t", "e", "r", "E", "r", "r", "o", "r">>

NaN == [t |-> "NaN"]

\* new Date(s) for an ISO date, as a number that orders like the time value;
\* anything else is taken to be an Invalid Date
DateOf(s) ==
    IF IsIsoDate(s)
    THEN JNum(DigitsValue(SubSeq(s, 1, 4)) * 10000
              + DigitsValue(SubSeq(s, 6, 7)) * 100 + DigitsValue(SubSeq(s, 9, 10)))
    ELSE NaN

\* a >= b on Dates: false when either is invalid
DateGeq(a, b) == a.t = "number" /\ b.t = "number" /\ a.v >= b.v

Truthy(value) ==
    CASE value.t \in {"undefined", "null", "NaN"} -> FALSE
      [] value.t = "string" -> value.v # <<>>
      [] value.t = "number" -> value.v # 0
      [] OTHER -> TRUE

ArrayOr(value) == IF value.t = "array" THEN value.v ELSE <<>>

hasActiveFilters(filters) ==
    \/ Len(ArrayOr(Prop(filters, "companyNames"))) > 0
    \/ Len(ArrayOr(Prop(filters, "announcementTypes"))) > 0
    \/ Truthy(Prop(filters, "startDate"))
    \/ Truthy(Prop(filters, "endDate"))

\* applyFilters without its end-date step
applyFilters_IgnoresEndDate(filters) ==
    LET companyNames == ArrayOr(Coalesce(Prop(filters, "companyNames"), JArr(<<>>)))
        announcementTypes ==
            ArrayOr(Coalesce(Prop(filters, "announcementTypes"), JArr(<<>>)))
        startDate == IF Truthy(Prop(filters, "startDate"))
                     THEN DateOf(Prop(filters, "startDate").v) ELSE JNull
        ByCompany(item) ==
            \E i \in 1..Len(companyNames) : includes(item.companyName, companyNames[i].v)
        ByType(item) ==
            \E i \in 1..Len(announcementTypes) :
                includes(item.announcementType, announcementTypes[i].v)
        FromStart(item) == DateGeq(DateOf(item.announcementDate), startDate)
        all == sampleData
        named == IF Len(companyNames) > 0 THEN SelectSeq(all, ByCompany) ELSE all
        typed == IF Len(announcementTypes) > 0 THEN SelectSeq(named, ByType) ELSE named
    IN IF startDate.t # "null" THEN SelectSeq(typed, FromStart) ELSE typed

\* the data applyFilters hands to setFilteredData
applyFilters(filters) ==
    LET companyNames == ArrayOr(Coalesce(Prop(filters, "companyNames"), JArr(<<>>)))
        announcementTypes ==
            ArrayOr(Coalesce(Prop(filters, "announcementTypes"), JArr(<<>>)))
        startDate == IF Truthy(Prop(filters, "startDate"))
                     THEN DateOf(Prop(filters, "startDate").v) ELSE JNull
        endDate == IF Truthy(Prop(filters, "endDate"))
                   THEN DateOf(Prop(filters, "endDate").v) ELSE JNull
        ByCompany(item) ==
            \E i \in 1..Len(companyNames) : includes(item.companyName, companyNames[i].v)
        ByType(item) ==
            \E i \in 1..Len(announcementTypes) :
                includes(item.announcementType, announcementTypes[i].v)
        FromStart(item) == DateGeq(DateOf(item.announcementDate), startDate)
        UntilEnd(item) == DateGeq(endDate, DateOf(item.announcementDate))
        all == sampleData
        named == IF Len(companyNames) > 0 THEN SelectSeq(all, ByCompany) ELSE all
        typed == IF Len(announcementTypes) > 0 THEN SelectSeq(named, ByType) ELSE named
        started == IF startDate.t # "null" THEN SelectSeq(typed, FromStart) ELSE typed
    IN IF endDate.t # "null" THEN SelectSeq(started, UntilEnd) ELSE started

\* the page state handleSearch leaves once fetchAnnouncements has settled
\* (isLoading apart, which the finally block clears)
searchOutcome(settled) ==
    IF settled.status = "rejected"
    THEN [filteredData |-> <<>>, diagnostics |-> JNull, isBackendResult |-> FALSE,
          error |-> JStr(OrElse(settled.error, FilterErrorText))]
    ELSE LET items == settled.value.items.v
             filters == settled.value.filters
             diags == settled.value.diagnostics
         IN IF Len(items) > 0
            THEN [filteredData |-> items, diagnostics |-> diags,
                  isBackendResult |-> TRUE,
                  error |-> Coalesce(Prop(diags, "error"), JNull)]
            ELSE [filteredData |-> IF hasActiveFilters(filters)
                                   THEN applyFilters(filters) ELSE <<>>,
                  diagnostics |-> diags,
                  isBackendResult |-> FALSE,
                  error |-> Coalesce(Prop(diags, "error"), JStr(NoResultsText))]

\* the queries typed into the search page: one letter, repeated or spaced
PageQueries ==
    {q \in StringsUpTo(MaxPageLen) :
        \A i, j \in 1..Len(q) : (q[i] # " " /\ q[j] # " ") => q[i] = q[j]}

PageFilters ==
    {Undefined,
     JObj([companyNames |-> JArr(<<JStr(<<"A", "b">>)>>),
           startDate |-> JStr(Date1), endDate |-> JStr(Date3)])}

PageDiagnostics ==
    {Undefined,
     JObj([confidence |-> JNum(70), notes |-> JArr(<<JStr(<<"n">>)>>)]),
     JObj([confidence |-> JNum(0), error |-> JStr(<<"e">>),
           notes |-> JArr(<<JStr(<<"1">>), JStr(<<"2">>), JStr(<<"3">>), JStr(<<"4">>)>>)]),
     JObj([confidence |-> JNum(100),
           notes |-> JArr(<<JStr(<<"1">>), JNum(2), JStr(<<"3">>)>>)])}

\* the backend answered OK with no items
ZeroItemNets ==
    {Backend(0, JsonBody(Data(JArr(<<>>), f, d))) : f \in PageFilters, d \in PageDiagnostics}

\* the backend could not be reached, or reported its store unavailable
UnavailableNets == {Unreachable, Backend(StoreMaxAttempts, EmptyBody)}

\* FilterConfigs the backend resolved for a search that matched no item
ResolvedFilters ==
    {JObj([announcementTypes |-> JArr(<<JStr(<<"A">>)>>)]),
     JObj([startDate |-> JStr(Date2)]),
     JObj([endDate |-> JStr(Date2)]),
     JObj([startDate |-> JStr(Date3), endDate |-> JStr(Date1)]),
     JObj([companyNames |-> JArr(<<JStr(<<"B", "a">>), JStr(<<"x">>)>>),
           announcementTypes |-> JArr(<<JStr(<<"b", " ", "a">>)>>)]),
     JObj([startDate |-> JStr(<<"a">>)])}

FilteredNets ==
    {Backend(0, JsonBody(Data(JArr(<<>>), f, Undefined))) : f \in ResolvedFilters}

PageNets ==
    UnavailableNets \cup ZeroItemNets \cup FilteredNets
    \cup {Backend(0, JsonBody(Data(JArr(<<PayloadItemA>>), Undefined, d))) :
            d \in PageDiagnostics}

\* handleSearch up to its await
HandleSearch ==
    \E query \in PageQueries :
        IF trim(query) = <<>>
        THEN \* resetToSample
             /\ filteredData' = applyFilters(EmptyFilters)
             /\ isBackendResult' = FALSE
             /\ diagnostics' = JNull
             /\ error' = JNull
             /\ lastSearch' = NoCall
             /\ latestSearch' = <<>>
             /\ UNCHANGED <<sampleData, isLoading, inflight, apiVars, suggestVars,
                            planVars, uiVars>>
        ELSE /\ BagCardinality(inflight) < MaxInflight
             /\ isLoading' = TRUE
             /\ error' = JNull
             /\ inflight' = inflight (+) SetToBag({trim(query)})
             /\ latestSearch' = trim(query)
             /\ UNCHANGED <<sampleData, filteredData, diagnostics, isBackendResult,
                            lastSearch, apiVars, suggestVars, planVars, uiVars>>

\* fetchAnnouncements settles and handleSearch runs to its end
SearchSettles ==
    \E query \in BagToSet(inflight), net \in PageNets :
      \E settled \in {fetchAnnouncements(query, <<>>, net)} :
        \E outcome \in {searchOutcome(settled)} :
           /\ inflight' = inflight (-) SetToBag({query})
           /\ filteredData' = outcome.filteredData
           /\ diagnostics' = outcome.diagnostics
           /\ isBackendResult' = outcome.isBackendResult
           /\ error' = outcome.error
           /\ isLoading' = FALSE
           /\ lastSearch' = [fn |-> "handleSearch",
                             fellBack |-> settled.status = "fulfilled" /\ settled.fellBack,
                             abandoned |-> query # latestSearch,
                             found |-> IF settled.status = "fulfilled"
                                       THEN Len(settled.value.items.v) ELSE 0,
                             filters |-> IF settled.status = "fulfilled"
                                         THEN settled.value.filters ELSE EmptyFilters]
           /\ UNCHANGED <<sampleData, latestSearch, apiVars, suggestVars, planVars, uiVars>>

NextPage == HandleSearch \/ SearchSettles

SpecPage == Init /\ [][NextPage]_vars

\* the line of notes MainAppPage renders under the table
\* (the middle dot and the ellipsis character are written in ASCII here)
NotesSeparator == <<" ", "|", " ">>
Ellipsis == <<"...">>

\* the notes line that shows every note
notesLine_ShowsAll(notes) == Join(notes, NotesSeparator)

notesLine(notes) ==
    Join(slice0(notes, 3), NotesSeparator)
        \o (IF Len(notes) > 3 THEN Ellipsis ELSE <<>>)

\* what the diagnostics block shows of the notes in the current state
NotesView ==
    IF ~isLoading /\ Truthy(diagnostics)
    THEN LET notes == Prop(diagnostics, "notes").v
         IN IF Len(notes) > 0
            THEN [shown |-> TRUE,
                  text |-> notesLine([i \in 1..Len(notes) |-> notes[i].v])]
            ELSE [shown |-> FALSE]
    ELSE [shown |-> FALSE]

----------------------------------------------------------------------------
(* Properties of the search page, checked under SpecPage *)

PageStateAfter(query, net) == searchOutcome(fetchAnnouncements(query, <<>>, net))

\* C8: the state handleSearch reaches when the backend was unavailable differs
\* from the state it reaches when the backend answered OK with zero items, and
\* data served from the local fallback is never marked as a backend result.
C8_UnavailableDistinctFromZeroMatches ==
    /\ \A query \in PageQueries, down \in UnavailableNets, zero \in ZeroItemNets :
          trim(query) # <<>>
              => PageStateAfter(trim(query), down) # PageStateAfter(trim(query), zero)
    /\ (lastSearch.fn = "handleSearch" /\ lastSearch.fellBack) => ~isBackendResult

\* C12: when the caller abandons a search by submitting another one, the
\* fetchAnnouncements request in flight is cancelled: the handler of a search
\* that is no longer the most recent one never applies its result to the page.
C12_AbandonedSearchNotApplied ==
    lastSearch.fn = "handleSearch" => ~lastSearch.abandoned

\* C19: whenever the diagnostics are displayed, the page shows exactly the
\* first min(3, length) notes in order, followed by an ellipsis if and only if
\* there are more than 3 notes (and no notes line when there is no note).
C19_AtMostThreeNotesShown ==
    (~isLoading /\ diagnostics # JNull)
        => LET notes == Prop(diagnostics, "notes").v
               n == Len(notes)
           IN /\ NotesView.shown <=> n > 0
              /\ n = 1 => NotesView.text = notes[1].v
              /\ n = 2 => NotesView.text = notes[1].v \o NotesSeparator \o notes[2].v
              /\ n = 3 => NotesView.text = notes[1].v \o NotesSeparator \o notes[2].v
                                              \o NotesSeparator \o notes[3].v
              /\ n > 3 => NotesView.text = notes[1].v \o NotesSeparator \o notes[2].v
                                              \o NotesSeparator \o notes[3].v
                                              \o Ellipsis

C19_Witness ==
    /\ ~isLoading
    /\ diagnostics # JNull
    /\ Len(Prop(diagnostics, "notes").v) = 4
    /\ NotesView.shown
    /\ NotesView.text = <<"1", " ", "|", " ", "2", " ", "|", " ", "3", "...">>

\* the sample items a FilterConfig lets through, in dataset order
Selected(filters) ==
    LET names == ArrayOr(Prop(filters, "companyNames"))
        types == ArrayOr(Prop(filters, "announcementTypes"))
        start == Prop(filters, "startDate")
        end == Prop(filters, "endDate")
        Passes(item) ==
            /\ names # <<>>
                  => \E i \in 1..Len(names) : includes(item.companyName, names[i].v)
            /\ types # <<>>
                  => \E i \in 1..Len(types) : includes(item.announcementType, types[i].v)
            /\ start.t = "string"
                  => DateGeq(DateOf(item.announcementDate), DateOf(start.v))
            /\ end.t = "string"
                  => DateGeq(DateOf(end.v), DateOf(item.announcementDate))
    IN SelectSeq(sampleData, Passes)

\* C20: applyFilters sets the displayed data to exactly the sample items, in
\* dataset order, that satisfy every constraint present in the FilterConfig;
\* applyFilters({}) yields the whole sample dataset and hasActiveFilters({})
\* is false.
C20_FiltersRestrictSampleData ==
    /\ ~hasActiveFilters(EmptyFilters)
    /\ (latestSearch = <<>> /\ lastSearch = NoCall)
          => (filteredData = sampleData /\ ~isBackendResult)
    /\ (lastSearch.fn = "handleSearch" /\ lastSearch.found = 0
            /\ hasActiveFilters(lastSearch.filters))
          => (filteredData = Selected(lastSearch.filters) /\ ~isBackendResult)

C20_Witness ==
    /\ lastSearch.fn = "handleSearch"
    /\ ~lastSearch.fellBack
    /\ Len(sampleData) = 2
    /\ Len(filteredData) = 1
    /\ ~isBackendResult
    /\ lastSearch.found = 0
    /\ Prop(lastSearch.filters, "endDate").t = "string"
    /\ filteredData = Selected(lastSearch.filters)

\* C22: once every search has completed, the displayed results are those of
\* the most recently submitted search: the search whose handler wrote the page
\* state last is the one submitted last.
C22_DisplayedResultsOfLatestSearch ==
    (BagCardinality(inflight) = 0 /\ lastSearch.fn = "handleSearch"
        /\ latestSearch # <<>>)
        => ~lastSearch.abandoned

\* C23: isLoading is true in every state with a handleSearch request in
\* flight and false once every started handleSearch has completed.
C23_LoadingTracksInflight ==
    isLoading <=> BagCardinality(inflight) > 0

----------------------------------------------------------------------------
(* The backend's Query Plan Selector (spec section 4.4) *)

FirstOf(arr) == arr[1].v

SortRange(filters) ==
    [start |-> Prop(filters, "startDate"), end |-> Prop(filters, "endDate")]

\* selectPlan with the first two rules exchanged
selectPlan_CategoryFirst(filters, runOptions) ==
    LET companyNames == ArrayOr(Prop(filters, "companyNames"))
        announcementTypes == ArrayOr(Prop(filters, "announcementTypes"))
    IN IF Len(announcementTypes) > 0
       THEN [tag |-> "ByCategoryIndex", partitionValue |-> FirstOf(announcementTypes),
             limit |-> runOptions.max_items, descending |-> runOptions.scan_descending]
       ELSE IF Len(companyNames) > 0
       THEN [tag |-> "ByPrimaryKey", partitionValue |-> FirstOf(companyNames),
             limit |-> runOptions.max_items, descending |-> runOptions.scan_descending]
       ELSE [tag |-> "FullScanFiltered",
             limit |-> runOptions.max_items, descending |-> runOptions.scan_descending]

selectPlan(filters, runOptions) ==
    LET companyNames == ArrayOr(Prop(filters, "companyNames"))
        announcementTypes == ArrayOr(Prop(filters, "announcementTypes"))
        hasDates == Truthy(Prop(filters, "startDate")) \/ Truthy(Prop(filters, "endDate"))
        common == [limit |-> runOptions.max_items,
                   descending |-> runOptions.scan_descending]
    IN IF Len(companyNames) > 0
       THEN Spread(common,
                [tag |-> "ByPrimaryKey", partitionValue |-> FirstOf(companyNames),
                 sortRange |-> SortRange(filters)])
       ELSE IF Len(announcementTypes) > 0
       THEN Spread(common,
                [tag |-> "ByCategoryIndex",
                 indexName |-> DEFAULT_QUERY_CONFIG.gsi_name_by_report_type,
                 partitionValue |-> FirstOf(announcementTypes),
                 sortRange |-> SortRange(filters)])
       ELSE IF hasDates
       THEN Spread(common,
                [tag |-> "ByDateIndex",
                 indexName |-> DEFAULT_QUERY_CONFIG.gsi_name_by_date,
                 partitionValue |-> DEFAULT_QUERY_CONFIG.gsi_date_pk_value,
                 sortRange |-> SortRange(filters)])
       ELSE Spread(common, [tag |-> "FullScanFiltered", predicate |-> "identity"])

\* { ...a } without the keys whose value is undefined
Defined(r) == [k \in {x \in DOMAIN r : r[x] # Undefined} |-> r[k]]

PlanFilterConfigs ==
    {JObj(Defined([companyNames |-> c, announcementTypes |-> a,
                   startDate |-> s, endDate |-> e])) :
        c \in {Undefined, JArr(<<>>), JStrs(<<<<"A", "b">>>>),
               JStrs(<<<<"B", "a">>, <<"A", "b">>>>)},
        a \in {Undefined, JArr(<<>>), JStrs(<<<<"A">>>>)},
        s \in {Undefined, JStr(Date1)},
        e \in {Undefined, JStr(Date3)}}

PlanRunOptions ==
    {[max_items |-> n, scan_descending |-> d] :
        n \in {DefaultMaxItems} \cup 1..MaxItemsOverride, d \in BOOLEAN}

SelectPlan ==
    /\ plan = NoPlan
    /\ \E filters \in PlanFilterConfigs, runOptions \in PlanRunOptions :
        /\ planFilters' = filters
        /\ plan' = selectPlan(filters, runOptions)
        /\ UNCHANGED <<sampleData, apiVars, pageVars, suggestVars, uiVars>>

NextPlan == SelectPlan

SpecPlan == Init /\ [][NextPlan]_vars

\* C9: plan selection follows the precedence company names, then announcement
\* types, then a date range, then nothing: ByPrimaryKey, ByCategoryIndex,
\* ByDateIndex, FullScanFiltered.
C9_PlanPrecedence ==
    plan # NoPlan =>
        LET hasNames == Len(ArrayOr(Prop(planFilters, "companyNames"))) > 0
            hasTypes == Len(ArrayOr(Prop(planFilters, "announcementTypes"))) > 0
            hasDates == \/ Prop(planFilters, "startDate") # Undefined
                        \/ Prop(planFilters, "endDate") # Undefined
        IN /\ hasNames => plan.tag = "ByPrimaryKey"
           /\ (~hasNames /\ hasTypes) => plan.tag = "ByCategoryIndex"
           /\ (~hasNames /\ ~hasTypes /\ hasDates) => plan.tag = "ByDateIndex"
           /\ (~hasNames /\ ~hasTypes /\ ~hasDates) => plan.tag = "FullScanFiltered"

C9_Witness ==
    /\ plan # NoPlan
    /\ plan.tag = "ByPrimaryKey"
    /\ Len(ArrayOr(Prop(planFilters, "companyNames"))) > 1
    /\ Len(ArrayOr(Prop(planFilters, "announcementTypes"))) > 0
    /\ Prop(planFilters, "startDate") # Undefined

----------------------------------------------------------------------------
(* hooks/useAutocomplete *)

SuggestLimit == 8

RECURSIVE FlatNames(_)
FlatNames(items) ==
    IF items = <<>> THEN <<>>
    ELSE <<Head(items).companyName, Head(items).announcementType>>
         \o FlatNames(Tail(items))

NonBlank(s) == Len(trim(s)) > 0

LOCAL_SUGGESTIONS == Dedupe(SelectSeq(FlatNames(sampleData), NonBlank))

\* buildLocalSuggestions without the Set that removes repeated matches
buildLocalSuggestions_NoSet(term, limit) ==
    LET trimmed == toLowerCase(trim(term))
        pool == LOCAL_SUGGESTIONS
        Match(value) ==
            \/ startsWith(toLowerCase(value), trimmed)
            \/ includes(toLowerCase(value), <<" ">> \o trimmed)
        Contains(value) == includes(toLowerCase(value), trimmed)
    IN IF trimmed = <<>> THEN slice0(pool, limit)
       ELSE slice0(SelectSeq(pool, Match) \o SelectSeq(pool, Contains), limit)

buildLocalSuggestions(term, limit) ==
    LET trimmed == toLowerCase(trim(term))
        pool == LOCAL_SUGGESTIONS
        Match(value) ==
            \/ startsWith(toLowerCase(value), trimmed)
            \/ includes(toLowerCase(value), <<" ">> \o trimmed)
        Contains(value) == includes(toLowerCase(value), trimmed)
        matches == SelectSeq(pool, Match)
        fallbackMatches == SelectSeq(pool, Contains)
        combined == matches \o fallbackMatches
    IN IF trimmed = <<>> THEN slice0(pool, limit)
       ELSE slice0(Dedupe(combined), limit)

\* one entry of payload.suggestions, mapped as getSuggestions maps it
RemoteEntry(item) ==
    IF item.t = "string" THEN item
    ELSE IF item.t = "object"
         THEN IF Prop(item, "alias").t = "string" /\ Truthy(JStr(trim(Prop(item, "alias").v)))
              THEN Prop(item, "alias")
              ELSE IF Prop(item, "canonical").t = "string"
                      /\ Truthy(JStr(trim(Prop(item, "canonical").v)))
                   THEN Prop(item, "canonical")
                   ELSE JNull
         ELSE JNull

\* the list getSuggestions stores once its request has settled without abort
suggestionsFor(trimmed, net) ==
    LET payload == net.body.value
        raw == IF payload.t \in {"null", "undefined"} THEN Undefined
               ELSE Prop(payload, "suggestions")
        list == ArrayOr(raw)
        mapped == [i \in 1..Len(list) |-> RemoteEntry(list[i])]
        kept == SelectSeq(mapped, isNonEmptyString)
        remote == [i \in 1..Len(kept) |-> kept[i].v]
        localFallback == buildLocalSuggestions(trimmed, SuggestLimit)
    IN IF net.kind = "unreachable" \/ ~net.ok \/ net.body.kind # "json"
       THEN buildLocalSuggestions(trimmed, SuggestLimit)
       ELSE slice0(Dedupe(remote \o localFallback), SuggestLimit)

Terms == StringsUpTo(MaxTermLen)

NineNames ==
    <<JStr(<<"1">>), JStr(<<"2">>), JStr(<<"3">>), JStr(<<"4">>), JStr(<<"5">>),
      JStr(<<"6">>), JStr(<<"7">>), JStr(<<"8">>), JStr(<<"9">>)>>

SuggestionLists ==
    {Undefined, JStr(<<"a">>), JArr(<<>>),
     JArr(<<JStr(<<"A", "b">>), JStr(<<"x">>), JStr(<<"A", "b">>), JStr(<<" ">>),
            JNum(3), JNull,
            JObj([alias |-> JStr(<<"x">>), canonical |-> JStr(<<"y">>)]),
            JObj([alias |-> JStr(<<" ">>), canonical |-> JStr(<<"y">>)]),
            JObj([alias |-> JNum(1)])>>),
     JArr(NineNames \o <<JStr(<<"1">>)>>)}

SuggestNets ==
    {Unreachable, Http(FALSE, Status500, EmptyBody), Http(TRUE, Status200, TextBody),
     Http(TRUE, Status200, JsonBody(JNull)), Http(TRUE, Status200, JsonBody(JArr(<<>>)))}
    \cup {Http(TRUE, Status200, JsonBody(JObj([suggestions |-> l]))) :
            l \in SuggestionLists}

Controller(id) == [t |-> "controller", id |-> id]

\* a new call that leaves the previous request running
AbortCurrent_LeavesRunning(reqs) == reqs

\* controllerRef.current?.abort()
AbortCurrent(reqs) ==
    IF controllerRef = JNull THEN reqs
    ELSE [reqs EXCEPT ![controllerRef.id].aborted = TRUE]

GetSuggestions ==
    /\ localCall = NoCall
    /\ \E currentWord \in Terms :
        IF trim(currentWord) = <<>>
        THEN /\ requests' = AbortCurrent(requests)
             /\ suggestions' = <<>>
             /\ UNCHANGED <<sampleData, controllerRef, localCall, apiVars, pageVars,
                            planVars, uiVars>>
        ELSE /\ Len(requests) < MaxRequests
             /\ requests' = Append(AbortCurrent(requests),
                                   [path |-> "/smart-suggestions",
                                    term |-> trim(currentWord), aborted |-> FALSE,
                                    settled |-> FALSE])
             /\ controllerRef' = Controller(Len(requests) + 1)
             /\ UNCHANGED <<sampleData, suggestions, localCall, apiVars, pageVars,
                            planVars, uiVars>>

\* getSuggestions finishing by also running the search for the word
SuggestionsSettle_RunsSearch ==
    \E i \in 1..Len(requests), net \in SuggestNets :
        /\ ~requests[i].settled
        /\ requests' = [requests EXCEPT ![i].settled = TRUE]
        /\ suggestions' = IF requests[i].aborted THEN suggestions
                          ELSE suggestionsFor(requests[i].term, net)
        /\ filteredData' = <<>>
        /\ UNCHANGED <<sampleData, controllerRef, localCall, apiVars, isLoading, error,
                       diagnostics, isBackendResult, inflight, lastSearch,
                       latestSearch, planVars, uiVars>>

\* the request of getSuggestions settles and the call runs to its end
SuggestionsSettle ==
    \E i \in 1..Len(requests), net \in SuggestNets :
        /\ ~requests[i].settled
        /\ requests' = [requests EXCEPT ![i].settled = TRUE]
        /\ suggestions' = IF requests[i].aborted THEN suggestions
                          ELSE suggestionsFor(requests[i].term, net)
        /\ UNCHANGED <<sampleData, controllerRef, localCall, apiVars, pageVars,
                       planVars, uiVars>>

\* a direct call of buildLocalSuggestions
CallBuildLocalSuggestions ==
    /\ localCall = NoCall
    /\ requests = <<>>
    /\ \E term \in Terms, limit \in 0..MaxLimit :
        /\ localCall' = [fn |-> "buildLocalSuggestions", term |-> term,
                         limit |-> limit, result |-> buildLocalSuggestions(term, limit)]
        /\ UNCHANGED <<sampleData, suggestions, controllerRef, requests, apiVars,
                       pageVars, planVars, uiVars>>

NextSuggest == GetSuggestions \/ SuggestionsSettle \/ CallBuildLocalSuggestions

SpecSuggest == Init /\ [][NextSuggest]_vars

\* C10: buildLocalSuggestions returns a list without repeated strings of
\* length at most limit, and the list getSuggestions stores has no repeated
\* string and at most 8 entries.
C10_SuggestionsDedupedAndBounded ==
    /\ NoRepeat(suggestions)
    /\ Len(suggestions) <= 8
    /\ localCall # NoCall
          => /\ NoRepeat(localCall.result)
             /\ Len(localCall.result) <= localCall.limit

C10_Witness ==
    /\ Len(suggestions) = 8
    /\ \E i \in 1..Len(requests) : requests[i].settled /\ ~requests[i].aborted

\* C11: in the list buildLocalSuggestions returns for a term that is not
\* blank, every entry that starts with the term (case-insensitively) precedes
\* every entry that only contains the term elsewhere.
C11_PrefixBeforeSubstring ==
    (localCall # NoCall /\ trim(localCall.term) # <<>>)
        => LET term == toLowerCase(trim(localCall.term))
               result == localCall.result
           IN \A i, j \in 1..Len(result) :
                 (/\ startsWith(toLowerCase(result[i]), term)
                  /\ ~startsWith(toLowerCase(result[j]), term)) => i < j

\* C17: getSuggestions only issues requests to /smart-suggestions and changes
\* no state other than the suggestions list and its own abort controller: the
\* sample data, the API calls, the page state and the query plan stay as they
\* were on every step of a suggestion lookup.
C17_SuggestionsIndependentOfPipeline ==
    [][(requests' # requests \/ suggestions' # suggestions
            \/ controllerRef' # controllerRef)
          => /\ UNCHANGED <<sampleData, apiVars, pageVars, planVars>>
             /\ \A i \in 1..Len(requests') :
                   requests'[i].path = "/smart-suggestions"]_vars

C17_Witness ==
    /\ suggestions # <<>>
    /\ controllerRef # JNull
    /\ \E i \in 1..Len(requests) :
          /\ requests[i].settled /\ ~requests[i].aborted
          /\ requests[i].path = "/smart-suggestions"
    /\ filteredData = sampleData
    /\ apiRequest = NoRequest

\* C18: issuing a new getSuggestions call aborts the previous request in
\* flight, and an aborted request never writes the suggestions list: at all
\* times every request but the most recent one is aborted or has settled, and
\* the settling of a request older than the most recent one, or of an aborted
\* one, leaves suggestions as they were.
C18_LatestSuggestionRequestWins ==
    /\ [](\A i \in 1..Len(requests) :
             i < Len(requests) => (requests[i].aborted \/ requests[i].settled))
    /\ [][\A i \in 1..Len(requests) :
             (/\ Len(requests') = Len(requests)
              /\ ~requests[i].settled
              /\ requests'[i].settled
              /\ (i < Len(requests) \/ requests[i].aborted))
                 => suggestions' = suggestions]_vars

C18_Witness ==
    /\ Len(requests) = 2
    /\ requests[1].aborted /\ requests[1].settled
    /\ requests[2].settled /\ ~requests[2].aborted
    /\ suggestions # <<>>

----------------------------------------------------------------------------
(* components/landing/RecentAnnouncements: the lazily loaded landing list *)

RecentCount == 50       \* Array.from({ length: 50 }, ...)
PageSize == 15          \* rows taken by one loadMoreItems timer
MaxTimers == 2          \* most loadMoreItems timers pending at once

recentAnnouncementsData ==
    [n \in 1..RecentCount |-> [id |-> 100 + (n - 1), company |-> (n - 1) % 7]]

\* Array.prototype.slice(start, end) for 0 <= start <= end
slice(s, start, end) == SubSeq(s, start + 1, IF end < Len(s) THEN end ELSE Len(s))

nextItems_FromStart(prev) == slice(recentAnnouncementsData, 0, PageSize)

\* the rows the timer's functional update appends to prev
nextItems(prev) == slice(recentAnnouncementsData, Len(prev), Len(prev) + PageSize)

\* loadMoreItems up to the setTimeout call
loadMoreItems ==
    /\ landingIsLoading' = TRUE
    /\ landingTimers' = landingTimers + 1

\* first render: the mount effect loads the first page and the observer effect
\* connects an observer that sees the values of that render
MountRecentAnnouncements ==
    /\ ~observer.connected
    /\ loadMoreItems
    /\ observer' = [connected |-> TRUE, isLoading |-> landingIsLoading,
                    length |-> Len(landingItems)]
    /\ UNCHANGED <<landingItems, sampleData, apiVars, pageVars, suggestVars, planVars, appVars>>

\* the observer effect runs again after a render changed isLoading or items.length
ReconnectObserver ==
    /\ observer.connected
    /\ observer # [connected |-> TRUE, isLoading |-> landingIsLoading,
                   length |-> Len(landingItems)]
    /\ observer' = [connected |-> TRUE, isLoading |-> landingIsLoading,
                    length |-> Len(landingItems)]
    /\ UNCHANGED <<landingItems, landingIsLoading, landingTimers,
                   sampleData, apiVars, pageVars, suggestVars, planVars, appVars>>

\* the IntersectionObserver callback, with the values it closed over
Intersect ==
    /\ observer.connected
    /\ ~observer.isLoading
    /\ observer.length < Len(recentAnnouncementsData)
    /\ landingTimers < MaxTimers
    /\ loadMoreItems
    /\ UNCHANGED <<landingItems, observer,
                   sampleData, apiVars, pageVars, suggestVars, planVars, appVars>>

\* the callback handed to setTimeout
LoadTimerFires ==
    /\ landingTimers > 0
    /\ landingItems' = landingItems \o nextItems(landingItems)
    /\ landingIsLoading' = FALSE
    /\ landingTimers' = landingTimers - 1
    /\ UNCHANGED <<observer, sampleData, apiVars, pageVars, suggestVars, planVars, appVars>>

NextLanding == MountRecentAnnouncements \/ ReconnectObserver \/ Intersect \/ LoadTimerFires

SpecLanding == Init /\ [][NextLanding]_vars

\* C24: the landing list is always the first k rows of recentAnnouncementsData
\* for some k <= 50 (so no duplicate, no gap, never more than 50 rows), and
\* every completed load appends at most 15 rows to the list it found.
C24_ListIsPrefixOfSource ==
    /\ [](/\ Len(landingItems) <= RecentCount
          /\ landingItems = SubSeq(recentAnnouncementsData, 1, Len(landingItems)))
    /\ [][/\ Len(landingItems') >= Len(landingItems)
          /\ Len(landingItems') - Len(landingItems) <= PageSize
          /\ SubSeq(landingItems', 1, Len(landingItems)) = landingItems]_vars

\* the list is complete while a second timer, started before the last load
\* finished, is still pending
C24_Witness ==
    /\ Len(landingItems) = RecentCount
    /\ landingTimers > 0

----------------------------------------------------------------------------
(* App: the stored session.  A localStorage value is a sequence of JSON
   tokens; JSON.parse and JSON.stringify are computed on the tokens. *)

Punct(p) == [t |-> "punct", v |-> p]
Key(k) == [t |-> "key", v |-> k]
LBrace == Punct("{")
RBrace == Punct("}")
Colon == Punct(":")
Comma == Punct(",")

Entry(raw) == [t |-> "entry", v |-> raw]

IsPunct(tok, p) == tok.t = "punct" /\ tok.v = p

IsJsonScalar(tok) == tok.t \in {"number", "string", "null"}

\* the members between the braces, from token i on
RECURSIVE parseMembers(_, _, _)
parseMembers(toks, i, obj) ==
    IF i + 2 > Len(toks) THEN [ok |-> FALSE]
    ELSE IF ~(toks[i].t = "key" /\ IsPunct(toks[i + 1], ":") /\ IsJsonScalar(toks[i + 2]))
    THEN [ok |-> FALSE]
    ELSE \* a later member with the same key replaces the earlier one
         LET member == [k \in {toks[i].v} |-> toks[i + 2]]
             merged == [k \in (DOMAIN obj) \cup {toks[i].v} |->
                            IF k = toks[i].v THEN member[k] ELSE obj[k]]
         IN  IF i + 2 = Len(toks) THEN [ok |-> TRUE, value |-> JObj(merged)]
             ELSE IF IsPunct(toks[i + 3], ",") THEN parseMembers(toks, i + 4, merged)
             ELSE [ok |-> FALSE]

EmptyObject == [k \in {} |-> Undefined]

\* JSON.parse: [ok |-> FALSE] stands for a SyntaxError
JSONparse(raw) ==
    IF Len(raw) = 0 THEN [ok |-> FALSE]
    ELSE IF Len(raw) = 1 THEN
        IF IsJsonScalar(raw[1]) THEN [ok |-> TRUE, value |-> raw[1]] ELSE [ok |-> FALSE]
    ELSE IF IsPunct(raw[1], "{") /\ IsPunct(raw[Len(raw)], "}") THEN
        IF Len(raw) = 2 THEN [ok |-> TRUE, value |-> JObj(EmptyObject)]
        ELSE parseMembers(SubSeq(raw, 2, Len(raw) - 1), 1, EmptyObject)
    ELSE [ok |-> FALSE]

SessionKeys == <<"email", "accessToken", "idToken", "expiresAt">>

\* the members of JSON.stringify(session) from key i on; undefined properties
\* are left out
RECURSIVE stringifyMembers(_, _, _)
stringifyMembers(session, i, first) ==
    IF i > Len(SessionKeys) THEN <<>>
    ELSE IF Prop(session, SessionKeys[i]) = Undefined
    THEN stringifyMembers(session, i + 1, first)
    ELSE (IF first THEN <<>> ELSE <<Comma>>)
         \o <<Key(SessionKeys[i]), Colon, Prop(session, SessionKeys[i])>>
         \o stringifyMembers(session, i + 1, FALSE)

JSONstringify(session) == <<LBrace>> \o stringifyMembers(session, 1, TRUE) \o <<RBrace>>

\* loadStoredSession: the value it returns and what it leaves in localStorage
loadStoredSession(entry, clock) ==
    IF entry = NoEntry \/ entry.v = <<>>                           \* if (!raw)
    THEN [result |-> JNull, threw |-> FALSE, storage |-> entry]
    ELSE IF ~JSONparse(entry.v).ok                                     \* SyntaxError, caught
    THEN [result |-> JNull, threw |-> FALSE, storage |-> NoEntry]
    ELSE IF JSONparse(entry.v).value = JNull                           \* TypeError, caught
    THEN [result |-> JNull, threw |-> FALSE, storage |-> NoEntry]
    ELSE IF Prop(JSONparse(entry.v).value, "expiresAt").t # "number"
    THEN [result |-> JNull, threw |-> FALSE, storage |-> NoEntry]
    ELSE IF Prop(JSONparse(entry.v).value, "expiresAt").v <= clock
    THEN [result |-> JNull, threw |-> FALSE, storage |-> NoEntry]
    ELSE [result |-> JSONparse(entry.v).value, threw |-> FALSE, storage |-> entry]

----------------------------------------------------------------------------
(* services/authService: signInWithCognito *)

Email == <<"a">>
Token == <<"B">>

ConfigMissing(env) == ~Truthy(env.region) \/ ~Truthy(env.clientId)

AuthResult(access, id, expiresIn) ==
    JObj([AccessToken |-> access, IdToken |-> id, ExpiresIn |-> expiresIn])

\* what cognito.send resolves with, or its rejection
ProviderAnswers ==
    {[rejected |-> TRUE]}
    \cup {[rejected |-> FALSE, ChallengeName |-> c, AuthenticationResult |-> r] :
            c \in {Undefined, JStr(<<"a">>)},
            r \in {Undefined}
                  \cup {AuthResult(a, i, e) : a \in {Undefined, JStr(<<>>), JStr(Token)},
                                              i \in {Undefined, JStr(Token)},
                                              e \in {Undefined, JNum(1)}}}

\* result.X ?? undefined
orUndefined(value) == IF value = JNull THEN Undefined ELSE value

signInWithCognito(env, answer) ==
    IF ConfigMissing(env) THEN [threw |-> TRUE, sent |-> FALSE]      \* getClient throws
    ELSE IF answer.rejected THEN [threw |-> TRUE, sent |-> TRUE]
    ELSE IF Truthy(answer.ChallengeName) THEN [threw |-> TRUE, sent |-> TRUE]
    ELSE IF \/ ~Truthy(answer.AuthenticationResult)
            \/ ~Truthy(Prop(answer.AuthenticationResult, "AccessToken"))
            \/ ~Truthy(Prop(answer.AuthenticationResult, "IdToken"))
    THEN [threw |-> TRUE, sent |-> TRUE]
    ELSE [threw |-> FALSE, sent |-> TRUE,
          accessToken |-> Prop(answer.AuthenticationResult, "AccessToken"),
          idToken |-> Prop(answer.AuthenticationResult, "IdToken"),
          expiresIn |-> orUndefined(Prop(answer.AuthenticationResult, "ExpiresIn"))]

----------------------------------------------------------------------------
(* App: pages, session, effects, and the three identity-provider forms *)

DefaultExpiresIn == 3600    \* tokens.expiresIn ?? 3600
MsPerSecond == 1000
MaxClock == 2               \* seconds the clock runs
MaxSessions == 2            \* auth sessions created in one behaviour
MaxIdp == 2                 \* identity-provider requests in flight at once

MaxNow == MaxClock * MsPerSecond
FarFuture == DefaultExpiresIn * MsPerSecond

BasicPlan == <<"b", "a", "s", "i", "c">>
ProPlan == <<"p", "r", "o">>
PlanIds == {BasicPlan, ProPlan}

Env(gating, region, clientId) ==
    [loaded |-> TRUE, gating |-> gating, region |-> region, clientId |-> clientId]

\* the builds: ENABLE_REGISTRATION_GATING, VITE_COGNITO_REGION, VITE_COGNITO_CLIENT_ID
Envs == {Env(TRUE, JStr(<<"a">>), JStr(<<"a">>)), Env(FALSE, JStr(<<"a">>), JStr(<<"a">>)),
         Env(TRUE, Undefined, JStr(<<"a">>)), Env(TRUE, JStr(<<"a">>), Undefined)}

StoredSession(access, expiresAt) ==
    <<LBrace, Key("email"), Colon, JStr(Email), Comma, Key("accessToken"), Colon, access,
      Comma, Key("idToken"), Colon, JStr(Token), Comma, Key("expiresAt"), Colon, expiresAt,
      RBrace>>

\* what localStorage may hold under the key when the page is opened
StoredValues ==
    {<<>>, <<LBrace>>, <<JNull>>, <<JNum(5)>>, <<LBrace, RBrace>>,
     <<LBrace, Key("expiresAt"), Colon, JNum(FarFuture), Comma, RBrace>>,
     <<LBrace, Key("expiresAt"), Colon, JNum(FarFuture), RBrace>>,
     StoredSession(JStr(Token), JStr(<<"a">>)),
     StoredSession(JStr(Token), JNum(MsPerSecond)),
     StoredSession(JStr(Token), JNum(FarFuture)),
     StoredSession(JStr(<<>>), JNum(FarFuture))}

\* an effect has to run: a dependency differs from what the last run saw
EffectsPending == appEnv.loaded /\ effectDeps # [sid |-> sid, page |-> currentPage]

selectedPlan(planId) == planId.t = "string" /\ planId.v \in PlanIds

\* which form components a render shows
Rendered(f, page, planId) ==
    CASE f = "login" -> page = "login"
      [] f = "registration" -> page = "registration" /\ selectedPlan(planId)
      [] f = "confirm" -> page = "confirm"

\* a render: a form that is no longer shown is unmounted, its state is lost and
\* the state updates of its pending requests go nowhere
renderForms(formsNow, page, planId) ==
    [f \in FormNames |->
        IF Rendered(f, currentPage, selectedPlanId) /\ Rendered(f, page, planId)
        THEN formsNow[f] ELSE InitialForm]

renderIdp(idpNow, page, planId) ==
    [i \in 1..Len(idpNow) |->
        [idpNow[i] EXCEPT !.live = @ /\ Rendered(idpNow[i].form, page, planId)]]

\* handleNavigate(page, options): the state it sets
navigate(page, options) ==
    [currentPage |-> page,
     selectedPlanId |-> IF Truthy(Prop(options, "planId")) THEN Prop(options, "planId")
                        ELSE IF page # "registration" THEN JNull
                        ELSE selectedPlanId,
     pendingEmail |-> IF Truthy(Prop(options, "email")) THEN Prop(options, "email")
                      ELSE IF page # "confirm" THEN JNull
                      ELSE pendingEmail]

Nav(page, options) == [page |-> page, options |-> options]

\* the handleNavigate calls the rendered components can make on a click
HeaderCalls ==
    {Nav(p, Undefined) : p \in {"landing", "product", "pricing", "about", "contact"}}
    \cup (IF appEnv.gating THEN {Nav("login", Undefined)} ELSE {})

PageCalls ==
    CASE currentPage = "landing" ->
            IF appEnv.gating THEN {Nav("registration", JStr(BasicPlan))}   \* handleFreeRegister
            ELSE {Nav("product", Undefined)}
      [] currentPage = "pricing" ->
            {Nav("registration", JObj([planId |-> JStr(p)])) : p \in PlanIds}
      [] currentPage = "about" -> {Nav("pricing", Undefined)}
      [] currentPage = "login" -> {Nav("pricing", Undefined)}
      [] currentPage = "confirm" ->
            IF ~Truthy(pendingEmail) THEN {Nav("registration", Undefined)} ELSE {}
      [] OTHER -> {}

\* handleLogout({ redirect }): the state it sets
handleLogout(redirect) ==
    [currentPage |-> redirect, selectedPlanId |-> JNull, pendingEmail |-> JNull,
     authSession |-> JNull]

\* handleSignInSuccess(tokens): the session it builds
handleSignInSuccess(tokens, clock) ==
    JObj([email |-> JStr(Email), accessToken |-> tokens.accessToken,
          idToken |-> tokens.idToken,
          expiresAt |-> JNum(clock + (IF tokens.expiresIn = Undefined THEN DefaultExpiresIn
                                      ELSE tokens.expiresIn.v) * MsPerSecond)])

expiresAt(session) == Prop(session, "expiresAt").v

\* the cleanup of the expiry effect: window.clearTimeout(timeoutId)
clearTimeout_Forgotten(timers) == timers

clearTimeout(timers) == {}

\* the login redirect effect: does it call setCurrentPage('product')
redirectToProduct_Never(session, page) == FALSE

redirectToProduct(session, page) == session # JNull /\ page = "login"

otherVars == <<sampleData, apiVars, pageVars, suggestVars, planVars, landingVars>>

Tick ==
    /\ now + MsPerSecond <= MaxNow
    /\ now' = now + MsPerSecond
    /\ UNCHANGED <<appEnv, storage, currentPage, selectedPlanId, pendingEmail, authSession,
                   sid, lastSid, effectDeps, expiryTimers, firedTimer, forms, idp,
                   otherVars>>

\* something wrote the key before the page was opened
ExternalStore ==
    /\ ~appEnv.loaded
    /\ storage = NoEntry
    /\ \E raw \in StoredValues : storage' = Entry(raw)
    /\ UNCHANGED <<appEnv, now, currentPage, selectedPlanId, pendingEmail, authSession,
                   sid, lastSid, effectDeps, expiryTimers, firedTimer, forms, idp,
                   otherVars>>

\* the page is opened or reloaded: App's first render
LoadApp ==
    /\ \E env \in Envs, load \in {loadStoredSession(storage, now)} :
        /\ appEnv.loaded => env = appEnv
        /\ load.result # JNull => lastSid < MaxSessions
        /\ appEnv' = env
        /\ storage' = load.storage
        /\ authSession' = load.result
        /\ sid' = IF load.result # JNull THEN lastSid + 1 ELSE 0
        /\ lastSid' = IF load.result # JNull THEN lastSid + 1 ELSE lastSid
    /\ currentPage' = "landing"
    /\ selectedPlanId' = JNull
    /\ pendingEmail' = JNull
    /\ effectDeps' = NoDeps
    /\ expiryTimers' = {}
    /\ forms' = InitialForms
    /\ idp' = <<>>
    /\ UNCHANGED <<now, firedTimer, otherVars>>

\* a click that ends in handleNavigate
HandleNavigate ==
    /\ appEnv.loaded
    /\ ~EffectsPending
    /\ \E call \in HeaderCalls \cup PageCalls :
       \E next \in {navigate(call.page, call.options)} :
        /\ currentPage' = next.currentPage
        /\ selectedPlanId' = next.selectedPlanId
        /\ pendingEmail' = next.pendingEmail
        /\ forms' = renderForms(forms, next.currentPage, next.selectedPlanId)
        /\ idp' = renderIdp(idp, next.currentPage, next.selectedPlanId)
    /\ UNCHANGED <<appEnv, now, storage, authSession, sid, lastSid, effectDeps, expiryTimers,
                   firedTimer, otherVars>>

\* Header onLogout
Logout ==
    /\ appEnv.loaded
    /\ ~EffectsPending
    /\ authSession # JNull
    /\ \E next \in {handleLogout("landing")} :
        /\ currentPage' = next.currentPage
        /\ selectedPlanId' = next.selectedPlanId
        /\ pendingEmail' = next.pendingEmail
        /\ authSession' = next.authSession
        /\ sid' = 0
        /\ forms' = renderForms(forms, next.currentPage, next.selectedPlanId)
        /\ idp' = renderIdp(idp, next.currentPage, next.selectedPlanId)
    /\ UNCHANGED <<appEnv, now, storage, lastSid, effectDeps, expiryTimers, firedTimer,
                   otherVars>>

\* the effects of one render, in the order App declares them: persistence
\* (deps [authSession]), expiry (deps [authSession, handleLogout]) and login
\* redirect (deps [authSession, currentPage]); the state updates they make are
\* applied together afterwards
RunEffects ==
    /\ EffectsPending
    /\ \E sessionChanged \in {effectDeps.sid # sid} :
       \E expired \in {sessionChanged /\ authSession # JNull /\ expiresAt(authSession) <= now} :
       \E after \in {IF expired THEN handleLogout("login")
                     ELSE [currentPage |-> currentPage, selectedPlanId |-> selectedPlanId,
                           pendingEmail |-> pendingEmail, authSession |-> authSession]} :
       \E page \in {IF redirectToProduct(authSession, currentPage) THEN "product"
                    ELSE after.currentPage} :
        /\ storage' = IF ~sessionChanged THEN storage
                      ELSE IF authSession # JNull THEN Entry(JSONstringify(authSession))
                      ELSE NoEntry
        /\ expiryTimers' =
                IF ~sessionChanged THEN expiryTimers
                ELSE clearTimeout(expiryTimers)
                     \cup (IF authSession # JNull /\ ~expired
                           THEN {[sid |-> sid, at |-> expiresAt(authSession)]} ELSE {})
        /\ authSession' = after.authSession
        /\ sid' = IF expired THEN 0 ELSE sid
        /\ selectedPlanId' = after.selectedPlanId
        /\ pendingEmail' = after.pendingEmail
        /\ currentPage' = page
        /\ forms' = renderForms(forms, page, after.selectedPlanId)
        /\ idp' = renderIdp(idp, page, after.selectedPlanId)
    /\ effectDeps' = [sid |-> sid, page |-> currentPage]
    /\ UNCHANGED <<appEnv, now, lastSid, firedTimer, otherVars>>

\* the callback of the expiry effect's setTimeout
ExpiryTimerFires ==
    /\ ~EffectsPending
    /\ \E timer \in expiryTimers, next \in {handleLogout("login")} :
        /\ now >= timer.at
        /\ expiryTimers' = expiryTimers \ {timer}
        /\ firedTimer' = [fired |-> TRUE, sid |-> timer.sid, current |-> sid]
        /\ currentPage' = next.currentPage
        /\ selectedPlanId' = next.selectedPlanId
        /\ pendingEmail' = next.pendingEmail
        /\ authSession' = next.authSession
        /\ sid' = 0
        /\ forms' = renderForms(forms, next.currentPage, next.selectedPlanId)
        /\ idp' = renderIdp(idp, next.currentPage, next.selectedPlanId)
    /\ UNCHANGED <<appEnv, now, storage, lastSid, effectDeps, otherVars>>

IdpRequest(form, kind) == [form |-> form, kind |-> kind, live |-> TRUE]

\* handleSubmit / handleConfirm up to the await.  The handler returns at once
\* when submitting is set; a missing configuration makes the service call
\* reject before anything is sent, so the catch and finally blocks follow
SubmitForm(f) ==
    /\ appEnv.loaded
    /\ ~EffectsPending
    /\ Len(idp) < MaxIdp
    /\ Rendered(f, currentPage, selectedPlanId)
    /\ f = "confirm" => Truthy(pendingEmail)
    /\ ~forms[f].submitting
    /\ IF ConfigMissing(appEnv)
       THEN /\ forms' = [forms EXCEPT ![f] = [@ EXCEPT !.submitting = FALSE,
                                                      !.error = TRUE,
                                                      !.message = FALSE]]
            /\ idp' = idp
       ELSE /\ forms' = [forms EXCEPT ![f] = [@ EXCEPT !.submitting = TRUE,
                                                      !.error = FALSE,
                                                      !.message = FALSE]]
            /\ idp' = Append(idp, IdpRequest(f, "submit"))
    /\ UNCHANGED <<appEnv, now, storage, currentPage, selectedPlanId, pendingEmail,
                   authSession, sid, lastSid, effectDeps, expiryTimers, firedTimer,
                   otherVars>>

\* LoginPage handleSubmit
SubmitLogin == SubmitForm("login")

\* LoginPage handleSubmit, RegistrationPage handleSubmit, ConfirmPage handleConfirm
SubmitAnyForm == \E f \in FormNames : SubmitForm(f)

\* ConfirmPage handleResend up to the await
ResendCode ==
    /\ appEnv.loaded
    /\ ~EffectsPending
    /\ Len(idp) < MaxIdp
    /\ Rendered("confirm", currentPage, selectedPlanId)
    /\ Truthy(pendingEmail)
    /\ ~forms["confirm"].resending
    /\ IF ConfigMissing(appEnv)
       THEN /\ forms' = [forms EXCEPT !["confirm"] = [@ EXCEPT !.resending = FALSE,
                                                              !.error = TRUE,
                                                              !.message = FALSE]]
            /\ idp' = idp
       ELSE /\ forms' = [forms EXCEPT !["confirm"] = [@ EXCEPT !.resending = TRUE,
                                                              !.error = FALSE,
                                                              !.message = FALSE]]
            /\ idp' = Append(idp, IdpRequest("confirm", "resend"))
    /\ UNCHANGED <<appEnv, now, storage, currentPage, selectedPlanId, pendingEmail,
                   authSession, sid, lastSid, effectDeps, expiryTimers, firedTimer,
                   otherVars>>

RemoveAt(s, i) == SubSeq(s, 1, i - 1) \o SubSeq(s, i + 1, Len(s))

\* the form state after the try / catch / finally of a handler whose await
\* settled; an unmounted form ignores the updates
settledForm(form, request, failed) ==
    IF ~request.live THEN form
    ELSE [submitting |-> IF request.kind = "submit" THEN FALSE ELSE form.submitting,
          resending |-> IF request.kind = "resend" THEN FALSE ELSE form.resending,
          error |-> IF failed THEN TRUE ELSE form.error,
          message |-> IF ~failed /\ request.form = "confirm" THEN TRUE ELSE form.message]

AppState ==
    [currentPage |-> currentPage, selectedPlanId |-> selectedPlanId,
     pendingEmail |-> pendingEmail, authSession |-> authSession]

\* the rest of a handler after its await: the provider answered request i
IdpSettles ==
    /\ appEnv.loaded
    /\ ~EffectsPending
    /\ \E i \in 1..Len(idp), answer \in ProviderAnswers :
       \E request \in {idp[i]}, signIn \in {signInWithCognito(appEnv, answer)} :
       \E failed \in {IF request.form = "login" THEN signIn.threw ELSE answer.rejected} :
       \E signedIn \in {request.form = "login" /\ ~failed} :
       \E next \in {IF failed \/ request.kind = "resend" THEN AppState
                    ELSE IF request.form = "login"
                    THEN [currentPage |-> "product", selectedPlanId |-> JNull,
                          pendingEmail |-> JNull,
                          authSession |-> handleSignInSuccess(signIn, now)]
                    ELSE IF request.form = "registration"
                    THEN navigate("confirm", JObj([email |-> JStr(Email)]))
                         @@ [authSession |-> authSession]
                    ELSE navigate("login", Undefined) @@ [authSession |-> authSession]} :
        /\ request.form # "login" =>
                answer \in {[rejected |-> TRUE],
                            [rejected |-> FALSE, ChallengeName |-> Undefined,
                             AuthenticationResult |-> Undefined]}
        /\ signedIn => lastSid < MaxSessions
        /\ currentPage' = next.currentPage
        /\ selectedPlanId' = next.selectedPlanId
        /\ pendingEmail' = next.pendingEmail
        /\ authSession' = next.authSession
        /\ sid' = IF signedIn THEN lastSid + 1 ELSE sid
        /\ lastSid' = IF signedIn THEN lastSid + 1 ELSE lastSid
        /\ forms' = renderForms([forms EXCEPT ![request.form] =
                                    settledForm(@, request, failed)],
                                next.currentPage, next.selectedPlanId)
        /\ idp' = renderIdp(RemoveAt(idp, i), next.currentPage, next.selectedPlanId)
    /\ UNCHANGED <<appEnv, now, storage, effectDeps, expiryTimers, firedTimer, otherVars>>

\* the session: storage, sign-in, expiry, logout
NextApp ==
    \/ Tick \/ ExternalStore \/ LoadApp \/ HandleNavigate \/ Logout \/ RunEffects
    \/ ExpiryTimerFires \/ SubmitLogin \/ IdpSettles

SpecApp == Init /\ [][NextApp]_vars

\* the pages and their forms
NextForms ==
    \/ LoadApp \/ HandleNavigate \/ RunEffects \/ SubmitAnyForm \/ ResendCode \/ IdpSettles

SpecForms == Init /\ [][NextForms]_vars

----------------------------------------------------------------------------
(* Claims about App *)

AtRest == appEnv.loaded /\ ~EffectsPending

\* the step is the callback of an expiry timer
ExpiryTimerStep == firedTimer' # firedTimer

\* the step is a run of the effects that finds a new session already expired
ExpiredAtEffectStep ==
    /\ EffectsPending
    /\ effectDeps' # effectDeps
    /\ effectDeps' # NoDeps
    /\ effectDeps.sid # sid
    /\ authSession # JNull
    /\ expiresAt(authSession) <= now

LoggedOutToLogin ==
    /\ authSession' = JNull
    /\ selectedPlanId' = JNull
    /\ pendingEmail' = JNull
    /\ currentPage' = "login"

\* C25: a session at rest always has its own expiry timer armed and no other;
\* when that timer fires, or when the expiry effect finds the session already
\* expired, authSession, selectedPlanId and pendingEmail become null and
\* currentPage becomes 'login'; once the effects have run the stored session is
\* gone; and a timer only ever fires while the session it was set for is the
\* current one.
C25_ExpiredSessionIsEnded ==
    /\ []((AtRest /\ authSession # JNull) =>
            expiryTimers = {[sid |-> sid, at |-> expiresAt(authSession)]})
    /\ []((AtRest /\ authSession = JNull) => (expiryTimers = {} /\ storage = NoEntry))
    /\ [](firedTimer.fired => firedTimer.current = firedTimer.sid)
    /\ [][(ExpiryTimerStep \/ ExpiredAtEffectStep) => LoggedOutToLogin]_vars

\* the timer of a second session has fired and ended it, after the first
\* session was replaced or ended
C25_Witness ==
    /\ AtRest
    /\ firedTimer.fired
    /\ firedTimer.sid = 2
    /\ authSession = JNull
    /\ currentPage = "login"
    /\ storage = NoEntry

\* C26: with no effect pending, an authenticated user is never on the login
\* page; whenever a session exists and currentPage is 'login', the next change
\* of currentPage (short of reloading the page) is to 'product'.
C26_AuthenticatedNeverRestsOnLogin ==
    /\ []((AtRest /\ authSession # JNull) => currentPage # "login")
    /\ [][(/\ appEnv.loaded
           /\ authSession # JNull
           /\ currentPage = "login"
           /\ currentPage' # currentPage
           /\ effectDeps' # NoDeps) => currentPage' = "product"]_vars

\* an authenticated user has navigated to the login page
C26_Witness ==
    /\ appEnv.loaded
    /\ authSession # JNull
    /\ currentPage = "login"
    /\ effectDeps.page # "login"

\* C27: whenever currentPage is 'registration', selectedPlanId names an
\* existing plan.
C27_RegistrationOnlyWithPlan ==
    (appEnv.loaded /\ currentPage = "registration") => selectedPlan(selectedPlanId)

Pending(f) == {i \in 1..Len(idp) : idp[i].form = f /\ idp[i].live}

\* C28: a mounted form never has more than one identity-provider request in
\* flight.
C28_SingleFlightPerForm == \A f \in FormNames : Cardinality(Pending(f)) <= 1

\* the step is App's first render, which calls loadStoredSession
LoadStep == effectDeps' = NoDeps /\ appEnv'.loaded /\ now' = now

\* C29: loadStoredSession returns a session only if the stored value parses as
\* JSON with a numeric expiresAt later than now; otherwise it returns null and
\* an entry that existed is removed.
C29_OnlyValidSessionRestored ==
    [][LoadStep =>
        /\ authSession' # JNull =>
            /\ storage # NoEntry
            /\ JSONparse(storage.v).ok
            /\ Prop(JSONparse(storage.v).value, "expiresAt").t = "number"
            /\ Prop(JSONparse(storage.v).value, "expiresAt").v > now
            /\ authSession' = JSONparse(storage.v).value
        /\ authSession' = JNull => storage' = NoEntry]_vars

\* the step is the rest of LoginPage's handleSubmit calling onSignIn
SignInStep == Len(idp') < Len(idp) /\ lastSid' = lastSid + 1 /\ effectDeps' = effectDeps

\* a session made by handleSignInSuccess carries both tokens
SignInSessionsCarryTokens ==
    [][SignInStep =>
        /\ ~ConfigMissing(appEnv)
        /\ Truthy(Prop(authSession', "accessToken"))
        /\ Truthy(Prop(authSession', "idToken"))]_vars

\* C30: App never holds an authSession whose accessToken or idToken is empty.
C30_SessionAlwaysCarriesTokens ==
    authSession # JNull =>
        /\ Truthy(Prop(authSession, "accessToken"))
        /\ Truthy(Prop(authSession, "idToken"))

----------------------------------------------------------------------------
(* The whole program *)

Next ==
    \/ NextApi \/ NextPage \/ NextSuggest \/ NextPlan
    \/ NextLanding \/ NextApp \/ NextForms

Spec == Init /\ [][Next]_vars

====
